---- MODULE Spec2Model ----
(***************************************************************************)
(* A model of the Gmail filtering pipeline: the row filter                 *)
(* (extract_job_application_rows), the label transform                     *)
(* (transform_dataframe), the paginated fetch                              *)
(* (fetch_gmail_messages_as_df) and the command line runs                  *)
(* (filter_job_applications, transform_labels).                            *)
(*                                                                         *)
(* Text is a sequence of one-character strings.  A table (DataFrame) is a  *)
(* record [columns, rows]: columns is the sequence of column names, rows   *)
(* the sequence of rows, each [index, cells] with cells a function from    *)
(* the column names to cell values.  A cell is a text or the missing       *)
(* value NaN.                                                              *)
(***************************************************************************)
EXTENDS Integers, Sequences, FiniteSets, TLC

VARIABLES
    pc,                \* position of the running function or script
    df,                \* the table the function is called with / the loaded table
    columns,           \* extract_job_application_rows: columns argument
    keywords,          \* extract_job_application_rows: keywords argument
    exclude_keywords,  \* extract_job_application_rows: exclude_keywords argument
    label_name,        \* transform_dataframe: label_name argument
    result,            \* what the call returned or raised
    service,           \* the mail API: the pages of the listing and the messages
    q,                 \* fetch_gmail_messages_as_df: q argument
    label_mapping,     \* fetch_gmail_messages_as_df: label_mapping
    page_token,        \* fetch_gmail_messages_as_df: page_token
    response,          \* fetch_gmail_messages_as_df: response of the last list call
    cursor,            \* fetch_gmail_messages_as_df: position of msg in messages
    message_dicts,     \* fetch_gmail_messages_as_df: message_dicts
    requests,          \* the list requests the loop has issued, in order
    script,            \* the script that runs: "filter" or "transform"
    args,              \* the parsed arguments: input, output, dry_run, verbose
    files,             \* the file system: the content of each existing path
    filtered_df,       \* filtered_df / transformed_df of the script
    trace,             \* the steps of the script entered so far, in order
    to_csv_calls,      \* the calls of to_csv made so far
    stdout,            \* what the script has printed
    log,               \* the warnings and errors the script has logged
    exit_status,       \* the exit status of the script, None while it runs
    now,               \* datetime.now(): the date of the run
    creds,             \* the credentials object of the script
    sys_path,          \* sys.path: the directories imports are looked up in
    sys_modules,       \* sys.modules: the modules imported so far
    namespace          \* the names the importing module has bound

filterVars == <<columns, keywords, exclude_keywords>>
fetchVars ==
    <<service, q, label_mapping, page_token, response, cursor, message_dicts, requests>>
cliVars ==
    <<script, args, files, filtered_df, trace, to_csv_calls, stdout, log, exit_status>>
envVars == <<now, creds, sys_path, sys_modules, namespace>>
vars == <<pc, df, filterVars, label_name, result, fetchVars, cliVars, envVars>>

(***************************************************************************)
(* Text helpers.                                                           *)
(***************************************************************************)

\* The missing value of a cell: a value that is no text.
NaN == <<"NaN">>

\* str.lower() on one character of the model's alphabet.
LowerChar(c) ==
    CASE c = "A" -> "a"
      [] c = "B" -> "b"
      [] c = "C" -> "c"
      [] c = "S" -> "s"
      [] c = "V" -> "v"
      [] OTHER -> c

\* str.lower()
Lower(s) == [i \in 1..Len(s) |-> LowerChar(s[i])]

\* Whether text lit occurs in text s at position i (1-based), the case
\* folded when ignorecase.
LiteralAt(s, lit, i, ignorecase) ==
    /\ i >= 1
    /\ i + Len(lit) - 1 <= Len(s)
    /\ \A j \in 1..Len(lit) :
          IF ignorecase
          THEN LowerChar(s[i + j - 1]) = LowerChar(lit[j])
          ELSE s[i + j - 1] = lit[j]

\* Concatenation of a sequence of texts with a separator: sep.join(parts).
RECURSIVE Join(_, _)
Join(parts, sep) ==
    IF parts = <<>> THEN <<>>
    ELSE IF Len(parts) = 1 THEN parts[1]
    ELSE parts[1] \o sep \o Join(Tail(parts), sep)

\* The characters re.escape puts a backslash before (those of the alphabet).
SpecialChars == {"|", ".", "/", "'", "[", "]", " ", "<", ">", "\\"}

\* re.escape(s)
RECURSIVE re_escape(_)
re_escape(s) ==
    IF s = <<>> THEN <<>>
    ELSE (IF s[1] \in SpecialChars THEN <<"\\", s[1]>> ELSE <<s[1]>>)
         \o re_escape(Tail(s))

\* The alternatives of a regular expression made of literal characters,
\* escaped characters and the alternation bar: the pattern is split at every
\* bar that is not escaped and the escapes are removed.  The empty pattern
\* has one alternative, the empty text.
RECURSIVE Alternatives(_, _)
Alternatives(p, cur) ==
    IF p = <<>> THEN <<cur>>
    ELSE IF p[1] = "\\" /\ Len(p) >= 2
         THEN Alternatives(SubSeq(p, 3, Len(p)), Append(cur, p[2]))
    ELSE IF p[1] = "|"
         THEN <<cur>> \o Alternatives(Tail(p), <<>>)
    ELSE Alternatives(Tail(p), Append(cur, p[1]))

\* re.search of such a pattern in s, with re.IGNORECASE when ignorecase.
SearchAlternatives(pattern, s, ignorecase) ==
    LET alts == Alternatives(pattern, <<>>)
    IN \E a \in 1..Len(alts) :
          \E i \in 1..(Len(s) + 1) : LiteralAt(s, alts[a], i, ignorecase)

\* Series.astype(str) on one cell: the missing value becomes the text "nan".
astype_str(x) == IF x = NaN THEN <<"n", "a", "n">> ELSE x

(***************************************************************************)
(* Tables.                                                                 *)
(***************************************************************************)

\* The elements of a sequence.
Range(s) == {s[i] : i \in 1..Len(s)}

\* The subsequence of s whose elements satisfy the mask (a sequence of
\* booleans of the same length), in order.
RECURSIVE MaskSeq(_, _)
MaskSeq(s, mask) ==
    IF s = <<>> THEN <<>>
    ELSE (IF mask[1] THEN <<s[1]>> ELSE <<>>) \o MaskSeq(Tail(s), Tail(mask))

\* A variant of df[mask] that takes the mask for integer positions
\* (df.iloc[mask.astype(int)]): row 0 for False and row 1 for True.
MutSelectRows(d, mask) ==
    IF Len(d.rows) < 2
    THEN [columns |-> d.columns, rows |-> MaskSeq(d.rows, mask)]
    ELSE [columns |-> d.columns,
          rows |-> [i \in 1..Len(mask) |-> d.rows[IF mask[i] THEN 2 ELSE 1]]]

\* df[mask]: the rows of df whose mask entry is true, columns unchanged.
SelectRows(d, mask) ==
    [columns |-> d.columns, rows |-> MaskSeq(d.rows, mask)]

\* df[col].astype(str).str.contains(pattern, case=False, regex=True,
\* na=False): one boolean per row.
ContainsColumn(d, col, pattern) ==
    [i \in 1..Len(d.rows) |->
        SearchAlternatives(pattern, astype_str(d.rows[i].cells[col]), TRUE)]

\* The or of ContainsColumn over the searched columns that exist in df,
\* starting from pd.Series(False, index=df.index).
RECURSIVE OrOverColumns(_, _, _)
OrOverColumns(d, cols, pattern) ==
    IF cols = <<>> THEN [i \in 1..Len(d.rows) |-> FALSE]
    ELSE LET rest == OrOverColumns(d, Tail(cols), pattern)
         IN IF cols[1] \in Range(d.columns)
            THEN LET m == ContainsColumn(d, cols[1], pattern)
                 IN [i \in 1..Len(d.rows) |-> m[i] \/ rest[i]]
            ELSE rest

\* extract_job_application_rows(df, columns, keywords, exclude_keywords)
extract_job_application_rows(d, cols, kws, excl) ==
    LET pattern == Join([i \in 1..Len(kws) |-> re_escape(kws[i])], <<"|">>)
        exclude_pattern == Join([i \in 1..Len(excl) |-> re_escape(excl[i])], <<"|">>)
        combined_filter == OrOverColumns(d, cols, pattern)
        exclude_filter == OrOverColumns(d, cols, exclude_pattern)
        final_filter == [i \in 1..Len(d.rows) |->
                            combined_filter[i] /\ ~exclude_filter[i]]
    IN SelectRows(d, final_filter)

\* The caller's table after extract_job_application_rows: the function
\* reads columns of df and selects rows of it, and assigns to no part of it
\* (the masks that |= changes are new Series).
InputAfterExtract(d, cols, kws, excl) == d

(***************************************************************************)
(* Inputs of the row filter.                                               *)
(***************************************************************************)

\* A table has at most MaxCells cells (rows times columns).
MaxCells == 3

\* A keyword list has at most MaxKeywords keywords.
MaxKeywords == 1

\* The cell values of the filter's tables.
CellChoices ==
    {NaN, <<"a", "b">>, <<"A">>, <<"c">>, <<"a", "|", "c">>}

\* The keywords and exclude keywords.
KeywordChoices == {<<"a">>, <<"B">>, <<"a", "|", "c">>}

\* All sequences over S of length at most n.
SeqsUpTo(S, n) == UNION {[1..k -> S] : k \in 0..n}

\* The column lists of the filter's tables.
TableColumnChoices == {<<"Subject">>, <<"Body">>, <<"Subject", "Body">>}

\* The tables over the given columns with n rows with indexes 1..n.
TablesOver(cols, n, cells) ==
    {[columns |-> cols,
      rows |-> [i \in 1..n |-> [index |-> i, cells |-> f[i]]]] :
        f \in [1..n -> [Range(cols) -> cells]]}

FilterTables ==
    UNION {TablesOver(cols, n, CellChoices) :
             <<cols, n>> \in {cn \in TableColumnChoices \X (0..MaxCells) :
                                Len(cn[1]) * cn[2] <= MaxCells}}

\* The searched column lists: the default, single columns, and a list
\* with a column no table has.
SearchColumnChoices ==
    {<<"Subject", "Body">>, <<"Subject">>, <<"Date", "Body">>, <<>>}

NoValue == <<"-">>

\* The variables of the fetch, in a run that does not fetch.
NoFetch ==
    /\ service = NoValue
    /\ q = NoValue
    /\ label_mapping = NoValue
    /\ page_token = NoValue
    /\ response = NoValue
    /\ cursor = 0
    /\ message_dicts = <<>>
    /\ requests = <<>>

\* The variables of the scripts, in a run of a function alone.
NoCli ==
    /\ script = NoValue
    /\ args = NoValue
    /\ files = NoValue
    /\ filtered_df = NoValue
    /\ trace = <<>>
    /\ to_csv_calls = <<>>
    /\ stdout = <<>>
    /\ log = <<>>
    /\ exit_status = NoValue

\* The date, the credentials and the import system, in a run that uses none.
NoEnv ==
    /\ now = NoValue
    /\ creds = NoValue
    /\ sys_path = NoValue
    /\ sys_modules = NoValue
    /\ namespace = NoValue

InitExtract ==
    /\ pc = "call"
    /\ df \in FilterTables
    /\ columns \in SearchColumnChoices
    /\ keywords \in SeqsUpTo(KeywordChoices, MaxKeywords)
    /\ exclude_keywords \in SeqsUpTo(KeywordChoices, MaxKeywords)
    /\ label_name = NoValue
    /\ result = NoValue
    /\ NoFetch
    /\ NoCli
    /\ NoEnv

\* The call of extract_job_application_rows returns.
Extract ==
    /\ pc = "call"
    /\ pc' = "return"
    /\ result' = extract_job_application_rows(df, columns, keywords, exclude_keywords)
    /\ df' = InputAfterExtract(df, columns, keywords, exclude_keywords)
    /\ UNCHANGED <<filterVars, label_name, fetchVars, cliVars>>
    /\ UNCHANGED envVars

NextExtract == Extract

SpecExtract == InitExtract /\ [][NextExtract]_vars

(***************************************************************************)
(* Claims about extract_job_application_rows.                              *)
(***************************************************************************)

\* Whether a cell holds a text that contains kw as a case-insensitive
\* literal substring; a missing value contains nothing.
CellContains(x, kw) ==
    /\ x # NaN
    /\ \E i \in 1..(Len(x) + 1) : LiteralAt(x, kw, i, TRUE)

\* Whether some searched column that exists in the table contains, in the
\* given row, some keyword of the list kws.
RowHits(d, row, cols, kws) ==
    \E c \in 1..Len(cols) :
        /\ cols[c] \in Range(d.columns)
        /\ \E k \in 1..Len(kws) : CellContains(row.cells[cols[c]], kws[k])

\* The indexes of the rows of a table, in order.
Indexes(d) == [i \in 1..Len(d.rows) |-> d.rows[i].index]

\* C1: a row is kept if and only if some searched column that exists
\* contains a keyword and no searched column that exists contains an
\* exclude keyword (case-insensitive literal substrings).
C1_KeptIffKeywordAndNoExclude ==
    pc = "return" =>
        \A i \in 1..Len(df.rows) :
            (df.rows[i] \in Range(result.rows))
            <=> (/\ RowHits(df, df.rows[i], columns, keywords)
                 /\ ~RowHits(df, df.rows[i], columns, exclude_keywords))

\* Whether s is a subsequence of t: s is t with some elements left out.
RECURSIVE IsSubsequence(_, _)
IsSubsequence(s, t) ==
    IF s = <<>> THEN TRUE
    ELSE IF t = <<>> THEN FALSE
    ELSE IF s[1] = t[1] THEN IsSubsequence(Tail(s), Tail(t))
    ELSE IsSubsequence(s, Tail(t))

\* C2: the returned table has the input's columns and its rows are input
\* rows, unchanged, none more often than in the input, in input order.
C2_OutputIsSubsequenceOfInput ==
    pc = "return" =>
        /\ result.columns = df.columns
        /\ IsSubsequence(result.rows, df.rows)

\* C2 witness: a call on three rows that kept two of them and dropped one.
C2_Witness ==
    /\ pc = "return"
    /\ Len(df.rows) = 3
    /\ Len(result.rows) = 2

(***************************************************************************)
(* transform_dataframe.  A call returns [ok |-> TRUE, value |-> table] or  *)
(* raises: [ok |-> FALSE, error |-> the exception's type].                 *)
(***************************************************************************)

Raised(e) == [ok |-> FALSE, error |-> e]
Returned(v) == [ok |-> TRUE, value |-> v]

\* Whether a regular expression made of literal characters and dots (a dot
\* stands for any character) matches s at position i.
RegexAt(s, pat, i) ==
    /\ i >= 1
    /\ i + Len(pat) - 1 <= Len(s)
    /\ \A j \in 1..Len(pat) : pat[j] = "." \/ s[i + j - 1] = pat[j]

\* re.search(pat, s) is not None, for such a pattern.
RegexSearch(pat, s) == \E i \in 1..(Len(s) + 1) : RegexAt(s, pat, i)

\* str.startswith(prefix)
StartsWith(s, prefix) == LiteralAt(s, prefix, 1, FALSE)

\* The column of a table as a sequence of cells.
Column(d, col) == [i \in 1..Len(d.rows) |-> d.rows[i].cells[col]]

\* Whether the .str accessor rejects the column: a column of a table with
\* rows whose values are all missing is a float column.
NotStringColumn(orig, col) ==
    /\ Len(orig.rows) > 0
    /\ \A i \in 1..Len(orig.rows) : orig.rows[i].cells[col] = NaN

\* filter_df_by_label(df, label_name): df[df["Labels"].str.contains(label_name)]
\* The name is read as a regular expression; a missing Labels value makes
\* the mask non-boolean and the selection raises.
filter_df_by_label(d, name) ==
    IF "Labels" \notin Range(d.columns) THEN Raised("KeyError")
    ELSE IF NotStringColumn(d, "Labels") THEN Raised("AttributeError")
    ELSE IF \E i \in 1..Len(d.rows) : d.rows[i].cells["Labels"] = NaN
         THEN Raised("ValueError")
    ELSE Returned(SelectRows(d, [i \in 1..Len(d.rows) |->
                                    RegexSearch(name, d.rows[i].cells["Labels"])]))

\* The sender prefix of the mail the owner sent.
SentPrefix ==
    <<"A", "r", "t", "h", "u", "r", " ", "Z", "a", "k", "i", "r", "o", "v">>

\* filter_out_sent(df): df[~df["From"].str.startswith("Arthur Zakirov")]
\* orig is the table the column's type comes from.  A missing From value
\* among the rows makes ~ raise.
filter_out_sent(d, orig) ==
    IF "From" \notin Range(d.columns) THEN Raised("KeyError")
    ELSE IF NotStringColumn(orig, "From") THEN Raised("AttributeError")
    ELSE IF \E i \in 1..Len(d.rows) : d.rows[i].cells["From"] = NaN
         THEN Raised("TypeError")
    ELSE Returned(SelectRows(d, [i \in 1..Len(d.rows) |->
                                    ~StartsWith(d.rows[i].cells["From"], SentPrefix)]))

\* The characters the status group [^/']+ stops at.
StatusStop == {"/", "'"}

\* The longest run of characters outside StatusStop that starts at s[i].
RECURSIVE StatusRun(_, _)
StatusRun(s, i) ==
    IF i > Len(s) \/ s[i] \in StatusStop THEN <<>>
    ELSE <<s[i]>> \o StatusRun(s, i + 1)

\* The positions at which rf"{name}/(?P<status>[^/']+)" matches s.
StatusMatches(name, s) ==
    {i \in 1..Len(s) :
        /\ RegexAt(s, name \o <<"/">>, i)
        /\ StatusRun(s, i + Len(name) + 1) # <<>>}

Min(S) == CHOOSE x \in S : \A y \in S : x <= y

\* The default of the label_name parameters of email_filters.py.
DefaultLabelName == <<"J", "O", "B", "S">>

\* extract_application_status_col(df, label_name): per row,
\* re.search(rf"{label_name}/(?P<status>[^/']+)", x).group("status");
\* a row without a match raises (None has no group).
extract_application_status_col(d, name) ==
    IF \E i \in 1..Len(d.rows) : StatusMatches(name, d.rows[i].cells["Labels"]) = {}
    THEN Raised("AttributeError")
    ELSE Returned([i \in 1..Len(d.rows) |->
            LET x == d.rows[i].cells["Labels"]
            IN StatusRun(x, Min(StatusMatches(name, x)) + Len(name) + 1)])

\* The position of the first c in s, 0 when there is none.
IndexOf(s, c) ==
    IF \E i \in 1..Len(s) : s[i] = c
    THEN Min({i \in 1..Len(s) : s[i] = c})
    ELSE 0

\* email.utils.parseaddr(x) for "Name <address>" and for a bare address:
\* the pair of the name and the address.
parseaddr(x) ==
    LET lt == IndexOf(x, "<")
        gt == IndexOf(x, ">")
    IN IF lt > 0 /\ gt > lt
       THEN <<SubSeq(x, 1, IF lt >= 2 /\ x[lt - 1] = " " THEN lt - 2 ELSE lt - 1),
              SubSeq(x, lt + 1, gt - 1)>>
       ELSE <<<<>>, x>>

\* The columns transform_dataframe drops.
DroppedColumns == <<"From", "Labels", "Body", "ID", "To">>

\* The elements of s that are not in the set S, in order.
RECURSIVE Without(_, _)
Without(s, S) ==
    IF s = <<>> THEN <<>>
    ELSE (IF s[1] \in S THEN <<>> ELSE <<s[1]>>) \o Without(Tail(s), S)

\* s followed by the elements of t that s does not hold: assigning to the
\* columns t of a table with columns s.
RECURSIVE WithColumns(_, _)
WithColumns(s, t) ==
    IF t = <<>> THEN s
    ELSE WithColumns(IF t[1] \in Range(s) THEN s ELSE Append(s, t[1]), Tail(t))

\* The function f restricted to the set S.
Restrict(f, S) == [x \in S |-> f[x]]

\* df["ApplicationStatus"] = extract_application_status_col(df=df): the
\* label_name of transform_dataframe is not passed on, the default is used.
StatusStep(d, name) == extract_application_status_col(d, DefaultLabelName)

\* transform_dataframe(df, label_name)
transform_dataframe(d, name) ==
    LET byLabel == filter_df_by_label(d, name)
    IN IF ~byLabel.ok THEN byLabel
       ELSE LET notSent == filter_out_sent(byLabel.value, d)
            IN IF ~notSent.ok THEN notSent
               ELSE LET t == notSent.value
                        status == StatusStep(t, name)
                    IN IF ~status.ok THEN status
                       ELSE IF ~(Range(DroppedColumns) \subseteq Range(t.columns))
                            THEN Raised("KeyError")
                       ELSE LET cols == Without(
                                   WithColumns(t.columns,
                                       <<"ApplicationStatus", "Name", "Email">>),
                                   Range(DroppedColumns))
                            IN Returned(
                                 [columns |-> cols,
                                  rows |-> [i \in 1..Len(t.rows) |->
                                     [index |-> t.rows[i].index,
                                      cells |-> Restrict(
                                         [c \in Range(t.columns) \cup
                                                {"ApplicationStatus", "Name", "Email"} |->
                                            CASE c = "ApplicationStatus" -> status.value[i]
                                              [] c = "Name" ->
                                                   parseaddr(t.rows[i].cells["From"])[1]
                                              [] c = "Email" ->
                                                   parseaddr(t.rows[i].cells["From"])[2]
                                              [] OTHER -> t.rows[i].cells[c]],
                                         Range(cols))]]])

\* A variant of the row selection that hands back the table itself when
\* the mask selects every row.
MutRowSelectionShares(d, selected) == Len(selected.rows) = Len(d.rows)

\* Whether df[mask] is the object df itself: never, a selection by a
\* boolean mask is a new table with copies of the rows.
RowSelectionShares(d, selected) == FALSE

\* The table d after df["ApplicationStatus"] = status and df["Name"],
\* df["Email"] = extract_email_and_name(df) were executed on it.
AssignColumns(d, status) ==
    [columns |-> WithColumns(d.columns, <<"ApplicationStatus", "Name", "Email">>),
     rows |-> [i \in 1..Len(d.rows) |->
        [index |-> d.rows[i].index,
         cells |-> [c \in Range(d.columns) \cup {"ApplicationStatus", "Name", "Email"} |->
            CASE c = "ApplicationStatus" -> status[i]
              [] c = "Name" -> parseaddr(d.rows[i].cells["From"])[1]
              [] c = "Email" -> parseaddr(d.rows[i].cells["From"])[2]
              [] OTHER -> d.rows[i].cells[c]]]]]

\* The caller's table after transform_dataframe(df, label_name).  The name
\* df of the function is bound anew by each selection and by drop; the
\* column assignments of lines 47 and 48 change the table that name is
\* bound to, which is the caller's only if both selections handed the
\* caller's table back.
InputAfterTransform(d, name) ==
    LET byLabel == filter_df_by_label(d, name)
    IN IF ~byLabel.ok THEN d
       ELSE LET notSent == filter_out_sent(byLabel.value, d)
            IN IF ~notSent.ok THEN d
               ELSE LET status == StatusStep(notSent.value, name)
                    IN IF /\ RowSelectionShares(d, byLabel.value)
                          /\ RowSelectionShares(byLabel.value, notSent.value)
                          /\ status.ok
                       THEN AssignColumns(d, status.value)
                       ELSE d

(***************************************************************************)
(* Inputs of transform_dataframe.                                          *)
(***************************************************************************)

\* A table given to transform_dataframe has at most MaxTransformRows rows.
MaxTransformRows == 2

\* str(list of label names), the form of a Labels cell: the fetch stores
\* the list of a message's label names and the CSV holds its text.
PyRepr(names) ==
    <<"[">> \o Join([i \in 1..Len(names) |-> <<"'">> \o names[i] \o <<"'">>],
                    <<",", " ">>) \o <<"]">>

LabelJobsA == <<"J", "O", "B", "S", "/", "a">>
LabelJobB == <<"J", "O", "B", "/", "b">>
LabelJobs == <<"J", "O", "B", "S">>
LabelInbox == <<"I", "N">>

\* The Labels cells of the transform's tables.
LabelsChoices ==
    {NaN} \cup
    {PyRepr(l) : l \in {<<>>, <<LabelJobsA>>, <<LabelJobB>>, <<LabelJobs>>,
                        <<LabelInbox>>, <<LabelJobB, LabelJobsA>>}}

\* The From cells of the transform's tables: the owner, a sender whose
\* name starts like the owner's, a bare address, and a missing value.
FromChoices ==
    {NaN,
     SentPrefix \o <<" ", "<", "z", ">">>,
     <<"A", "r", "t", "h", "u", "r", " ", "<", "a", ">">>,
     <<"b">>}

\* The label_name arguments: the default of transform_dataframe, the
\* default of --label-name, and a name with a character that is special in
\* a regular expression.
LabelNameChoices ==
    {DefaultLabelName, <<"J", "O", "B">>, <<"J", ".", "B", "S">>}

\* The columns of the table the fetch writes.
FetchedColumns == <<"Labels", "Body", "ID", "From", "To", "Subject", "Date">>

\* The column lists of the transform's tables: the fetched columns, and
\* the fetched columns without To, without From, without Labels.
TransformColumnChoices ==
    {FetchedColumns} \cup {Without(FetchedColumns, {c}) : c \in {"To", "From", "Labels"}}

\* The value of the cells the transform does not read.
OtherCell == <<"x">>

\* The tables given to transform_dataframe: at most max_rows rows.
TransformTables(max_rows) ==
    {[columns |-> cols,
      rows |-> [i \in 1..n |->
         [index |-> i,
          cells |-> [c \in Range(cols) |->
                        CASE c = "Labels" -> lf[i][1]
                          [] c = "From" -> lf[i][2]
                          [] OTHER -> OtherCell]]]] :
        <<cols, n, lf>> \in
            UNION {{<<c, k, f>> : f \in [1..k -> LabelsChoices \X FromChoices]} :
                      <<c, k>> \in TransformColumnChoices \X (0..max_rows)}}

InitTransform ==
    /\ pc = "call"
    /\ df \in TransformTables(MaxTransformRows)
    /\ label_name \in LabelNameChoices
    /\ columns = NoValue
    /\ keywords = NoValue
    /\ exclude_keywords = NoValue
    /\ result = NoValue
    /\ NoFetch
    /\ NoCli
    /\ NoEnv

\* The call of transform_dataframe returns or raises.
Transform ==
    /\ pc = "call"
    /\ pc' = "return"
    /\ result' = transform_dataframe(df, label_name)
    /\ df' = InputAfterTransform(df, label_name)
    /\ UNCHANGED <<filterVars, label_name, fetchVars, cliVars>>
    /\ UNCHANGED envVars

NextTransform == Transform

SpecTransform == InitTransform /\ [][NextTransform]_vars

(***************************************************************************)
(* Claims about transform_dataframe.                                       *)
(***************************************************************************)

\* The positions at which the text lit occurs in s.
Occurrences(s, lit) == {i \in 1..Len(s) : LiteralAt(s, lit, i, FALSE)}

\* The input row with the given index.
InputRow(idx) == df.rows[idx]

\* C3: in every returned row ApplicationStatus is the token that follows
\* '<label_name>/' in the row's Labels text, up to the next '/' or quote.
C3_StatusFollowsLabelName ==
    (pc = "return" /\ result.ok) =>
        \A i \in 1..Len(result.value.rows) :
            LET row == result.value.rows[i]
                x == InputRow(row.index).cells["Labels"]
                occ == Occurrences(x, label_name \o <<"/">>)
            IN /\ occ # {}
               /\ row.cells["ApplicationStatus"] =
                     StatusRun(x, Min(occ) + Len(label_name) + 1)

\* C4: the returned rows are exactly the input rows whose Labels text
\* contains label_name and whose From does not start with the owner's
\* name, in input order.
C4_RowsAreLabelledAndNotSent ==
    (pc = "return" /\ result.ok) =>
        Indexes(result.value) =
            Indexes(SelectRows(df, [i \in 1..Len(df.rows) |->
                /\ Occurrences(df.rows[i].cells["Labels"], label_name) # {}
                /\ ~StartsWith(df.rows[i].cells["From"], SentPrefix)]))

(***************************************************************************)
(* fetch_gmail_messages_as_df.  The mail API is the variable service:      *)
(* service.pages is the listing, a sequence of pages, each the sequence of *)
(* message ids it lists; the response for the page k carries               *)
(* nextPageToken k + 1 unless k is the last page.  service.headers gives   *)
(* each message's headers.                                                 *)
(***************************************************************************)

\* The listing has at most MaxPages pages of at most MaxPerPage messages.
MaxPages == 2
MaxPerPage == 2

\* Python's None.
None == <<"None">>

\* Python's truth of a text or None.
Truthy(x) == x # None /\ x # <<>>

\* The page token that names the page k of the listing.
PageToken(k) == <<"p", <<"1", "2", "3", "4", "5", "6", "7", "8", "9">>[k]>>

MessageIds == {<<"m", "1">>, <<"m", "2">>}

\* The header lists of a message: name and value pairs.
Header(n) == [name |-> n, value |-> OtherCell]
HeaderChoices ==
    {<<Header("Received"), Header("From"), Header("To"), Header("Subject"),
       Header("Date")>>,
     <<Header("Date"), Header("From"), Header("Subject")>>,
     <<>>}

\* The label ids of every message, and the names the API maps ids to.
MessageLabelIds == <<"L1", "L9">>
ServiceLabels == [id \in {"L1"} |-> LabelJobsA]
Unknown == <<"U", "n", "k", "n", "o", "w", "n">>

\* The q arguments: None, the empty query and a query.
QueryChoices == {None, <<>>, <<"i", "s", ":", "x">>}

\* The default of the columns parameter of fetch_gmail_messages_as_df.
DefaultHeaderColumns == <<"From", "To", "Subject", "Date">>

\* service.users().messages().list(**params).execute(): the page the token
\* names, the first page without a token.
ListResponse(params) ==
    LET k == IF "pageToken" \in DOMAIN params
             THEN CHOOSE n \in 1..Len(service.pages) : PageToken(n) = params["pageToken"]
             ELSE 1
    IN [messages |-> service.pages[k],
        nextPageToken |-> IF k < Len(service.pages) THEN PageToken(k + 1) ELSE None]

\* service.users().messages().get(userId, id).execute()
GetMessage(id) ==
    [id |-> id, labelIds |-> MessageLabelIds, headers |-> service.headers[id]]

\* A variant of the params that never carries the query.
MutListParams(token, query) ==
    [k \in {"userId"} \cup (IF Truthy(token) THEN {"pageToken"} ELSE {}) |->
        CASE k = "userId" -> <<"m", "e">>
          [] k = "pageToken" -> token]

\* The params of a list request of the loop.
ListParams(token, query) ==
    [k \in {"userId"} \cup (IF Truthy(token) THEN {"pageToken"} ELSE {})
                      \cup (IF Truthy(query) THEN {"q"} ELSE {}) |->
        CASE k = "userId" -> <<"m", "e">>
          [] k = "pageToken" -> token
          [] k = "q" -> query]

\* The keys and values the header loop adds to a message_dict: each header
\* whose name is in columns, a later header replacing an earlier of its name.
RECURSIVE HeaderEntries(_, _, _)
HeaderEntries(dict, headers, cols) ==
    IF headers = <<>> THEN dict
    ELSE LET h == headers[1]
         IN HeaderEntries(
              IF h.name \in Range(cols)
              THEN [keys |-> WithColumns(dict.keys, <<h.name>>),
                    vals |-> [k \in DOMAIN dict.vals \cup {h.name} |->
                                 IF k = h.name THEN h.value ELSE dict.vals[k]]]
              ELSE dict,
              Tail(headers), cols)

\* The message_dict of a message: Labels, Body, ID, then the headers.
MessageDict(message, body, mapping, cols) ==
    HeaderEntries(
        [keys |-> <<"Labels", "Body", "ID">>,
         vals |-> [k \in {"Labels", "Body", "ID"} |->
                     CASE k = "Labels" ->
                            [i \in 1..Len(message.labelIds) |->
                                IF message.labelIds[i] \in DOMAIN mapping
                                THEN mapping[message.labelIds[i]]
                                ELSE Unknown]
                       [] k = "Body" -> body
                       [] k = "ID" -> message.id]],
        message.headers, cols)

\* The columns of pd.DataFrame(dicts): the keys in the order they first
\* appear.
RECURSIVE FrameColumns(_)
FrameColumns(dicts) ==
    IF dicts = <<>> THEN <<>>
    ELSE WithColumns(dicts[1].keys, FrameColumns(Tail(dicts)))

\* pd.DataFrame(dicts): one row per dict, a missing key a missing value.
DataFrame(dicts) ==
    LET cols == FrameColumns(dicts)
    IN [columns |-> cols,
        rows |-> [i \in 1..Len(dicts) |->
                    [index |-> i,
                     cells |-> [c \in Range(cols) |->
                                  IF c \in DOMAIN dicts[i].vals
                                  THEN dicts[i].vals[c]
                                  ELSE NaN]]]]

\* A variant of the token step that never follows nextPageToken.
MutNextPageToken(resp) == None

\* response.get('nextPageToken')
NextPageToken(resp) == resp.nextPageToken

Listings ==
    UNION {[1..n -> SeqsUpTo(MessageIds, MaxPerPage)] : n \in 1..MaxPages}

InitFetch ==
    /\ pc = "labels"
    /\ service \in [pages : Listings, headers : [MessageIds -> HeaderChoices]]
    /\ q \in QueryChoices
    /\ label_mapping = NoValue
    /\ page_token = None
    /\ response = NoValue
    /\ cursor = 0
    /\ message_dicts = <<>>
    /\ requests = <<>>
    /\ df = NoValue
    /\ columns = DefaultHeaderColumns
    /\ keywords = NoValue
    /\ exclude_keywords = NoValue
    /\ label_name = NoValue
    /\ result = NoValue
    /\ NoCli
    /\ NoEnv

\* label_mapping = fetch_label_mapping(service, 'me')
FetchLabelMapping ==
    /\ pc = "labels"
    /\ label_mapping' = ServiceLabels
    /\ pc' = "estimate"
    /\ UNCHANGED <<df, filterVars, label_name, result, service, q, page_token,
                   response, cursor, message_dicts, requests, cliVars>>
    /\ UNCHANGED envVars

\* total = ...list(userId="me", q=q, maxResults=1)...: the size estimate
\* for the progress bar; page_token = None and message_dicts = [] are set.
EstimateTotal ==
    /\ pc = "estimate"
    /\ page_token' = None
    /\ message_dicts' = <<>>
    /\ pc' = "list"
    /\ UNCHANGED <<df, filterVars, label_name, result, service, q, label_mapping,
                   response, cursor, requests, cliVars>>
    /\ UNCHANGED envVars

\* The head of the while loop: the list request for the next page.
ListPage ==
    /\ pc = "list"
    /\ LET params == ListParams(page_token, q)
       IN /\ requests' = Append(requests, params)
          /\ response' = ListResponse(params)
    /\ cursor' = 1
    /\ pc' = "messages"
    /\ UNCHANGED <<df, filterVars, label_name, result, service, q, label_mapping,
                   page_token, message_dicts, cliVars>>
    /\ UNCHANGED envVars

\* The body of the for loop for one listed message.
ProcessMessage ==
    /\ pc = "messages"
    /\ cursor <= Len(response.messages)
    /\ LET message_id == response.messages[cursor]
           message == GetMessage(message_id)
       IN message_dicts' =
             Append(message_dicts,
                    MessageDict(message, OtherCell, label_mapping, columns))
    /\ cursor' = cursor + 1
    /\ UNCHANGED <<pc, df, filterVars, label_name, result, service, q, label_mapping,
                   page_token, response, requests, cliVars>>
    /\ UNCHANGED envVars

\* The end of the while body: the next token, and the break without one.
NextPage ==
    /\ pc = "messages"
    /\ cursor > Len(response.messages)
    /\ page_token' = NextPageToken(response)
    /\ pc' = IF Truthy(page_token') THEN "list" ELSE "frame"
    /\ UNCHANGED <<df, filterVars, label_name, result, service, q, label_mapping,
                   response, cursor, message_dicts, requests, cliVars>>
    /\ UNCHANGED envVars

\* df = pd.DataFrame(message_dicts); return df
BuildFrame ==
    /\ pc = "frame"
    /\ result' = Returned(DataFrame(message_dicts))
    /\ pc' = "return"
    /\ UNCHANGED <<df, filterVars, label_name, fetchVars, cliVars>>
    /\ UNCHANGED envVars

\* A request to the API fails (HttpError) and the exception leaves the
\* function.
ApiError ==
    /\ pc \in {"labels", "estimate", "list"}
       \/ (pc = "messages" /\ cursor <= Len(response.messages))
    /\ result' = Raised("HttpError")
    /\ pc' = "raised"
    /\ UNCHANGED <<df, filterVars, label_name, fetchVars, cliVars>>
    /\ UNCHANGED envVars

NextFetch ==
    \/ FetchLabelMapping
    \/ EstimateTotal
    \/ ListPage
    \/ ProcessMessage
    \/ NextPage
    \/ BuildFrame
    \/ ApiError

SpecFetch == InitFetch /\ [][NextFetch]_vars

(***************************************************************************)
(* Claims about fetch_gmail_messages_as_df.                                *)
(***************************************************************************)

\* The concatenation of a sequence of sequences.
RECURSIVE Flatten(_)
Flatten(ss) == IF ss = <<>> THEN <<>> ELSE ss[1] \o Flatten(Tail(ss))

\* C5: the returned table has one row per listed message id, in listing
\* order (page by page, within a page as listed), and each row's ID is the
\* id of its message.
C5_OneRowPerListedMessage ==
    (pc = "return" /\ result.ok) =>
        Column(result.value, "ID") = Flatten(service.pages)

\* C5 witness: a return after a listing of two pages that both list
\* messages, one of them two.
C5_Witness ==
    /\ pc = "return"
    /\ result.ok
    /\ Len(service.pages) = 2
    /\ Len(service.pages[1]) = 2
    /\ Len(service.pages[2]) >= 1

\* The columns the claim C6 names.
DocumentedColumns == {"Labels", "Body", "ID", "From", "To", "Subject", "Date"}

\* C6: every returned table has exactly the columns Labels, Body, ID,
\* From, To, Subject and Date.
C6_ColumnsAreTheDocumentedDefaults ==
    (pc = "return" /\ result.ok) =>
        Range(result.value.columns) = DocumentedColumns

(***************************************************************************)
(* The scripts filter_job_applications.py and transform_email_labels.py.   *)
(* A file is the sequence of its lines, a line the sequence of its fields; *)
(* the blank line is the line without fields.  A field is a text; the      *)
(* field of a column name is the text of one token, the name.  An          *)
(* unreadable file is Unreadable.  An exception is [ok |-> FALSE,          *)
(* error |-> type, message |-> the start of its message].                  *)
(***************************************************************************)

RaisedWith(e, msg) == [ok |-> FALSE, error |-> e, message |-> msg]

\* str.endswith(suffix)
EndsWith(s, suffix) ==
    /\ Len(s) >= Len(suffix)
    /\ SubSeq(s, Len(s) - Len(suffix) + 1, Len(s)) = suffix

DotCsv == <<".", "c", "s", "v">>

\* os.path.exists(path)
Exists(path) == path \in DOMAIN files

\* A variant of validate_input_file that looks for the file first.
MutValidateInputFile(file_path) ==
    IF ~Exists(file_path)
    THEN RaisedWith("FileNotFoundError", "Input file not found")
    ELSE IF ~EndsWith(Lower(file_path), DotCsv)
    THEN RaisedWith("ValueError", "Input file must be a CSV file")
    ELSE Returned(None)

\* validate_input_file(file_path)
validate_input_file(file_path) ==
    IF ~EndsWith(Lower(file_path), DotCsv)
    THEN RaisedWith("ValueError", "Input file must be a CSV file")
    ELSE IF ~Exists(file_path)
    THEN RaisedWith("FileNotFoundError", "Input file not found")
    ELSE Returned(None)

\* The content of a file that is no text.
Unreadable == <<<<<<"\\">>>>>>

\* The value pd.read_csv gives a field: the empty field is a missing value.
ParseField(f) == IF f = <<>> THEN NaN ELSE f

\* pd.read_csv(file_path): blank lines are skipped, the first line left is
\* the header and the others are the rows; a row shorter than the header
\* is filled with missing values.
read_csv(file_path) ==
    IF ~Exists(file_path) THEN RaisedWith("FileNotFoundError", "No such file")
    ELSE IF files[file_path] = Unreadable
    THEN RaisedWith("UnicodeDecodeError", "codec can't decode")
    ELSE LET lines == Without(files[file_path], {<<>>})
         IN IF lines = <<>>
            THEN RaisedWith("EmptyDataError", "No columns to parse from file")
            ELSE LET header == [k \in 1..Len(lines[1]) |-> lines[1][k][1]]
                 IN Returned(
                      [columns |-> header,
                       rows |-> [i \in 1..(Len(lines) - 1) |->
                          [index |-> i,
                           cells |-> [c \in Range(header) |->
                              LET k == IndexOf(header, c)
                              IN IF k <= Len(lines[i + 1])
                                 THEN ParseField(lines[i + 1][k])
                                 ELSE NaN]]]])

\* A variant of the emptiness test that looks at the columns only.
MutIsEmptyFrame(d) == Len(d.columns) = 0

\* df.empty or len(df.columns) == 0
IsEmptyFrame(d) == Len(d.rows) = 0 \/ Len(d.columns) = 0

\* A variant of load_email_data without the emptiness test.
MutLoadEmailData(file_path) ==
    LET r == read_csv(file_path)
    IN IF ~r.ok THEN RaisedWith("Exception", "Error loading CSV file")
       ELSE r

\* load_email_data(file_path): every exception of the try block, the
\* ValueError of the emptiness test included, is raised again as an
\* Exception "Error loading CSV file: ...".
load_email_data(file_path) ==
    LET r == read_csv(file_path)
    IN IF ~r.ok THEN RaisedWith("Exception", "Error loading CSV file")
       ELSE IF IsEmptyFrame(r.value)
       THEN RaisedWith("Exception", "Error loading CSV file")
       ELSE r

\* The text to_csv writes for a cell: nothing for a missing value.
FieldText(x) == IF x = NaN THEN <<>> ELSE x

\* The header line of a file with the given column names.
HeaderLine(names) == [k \in 1..Len(names) |-> <<names[k]>>]

\* A variant of to_csv that writes the header line only.
MutToCsv(d) == <<HeaderLine(d.columns)>>

\* df.to_csv(path, index=False): the header line, then one line per row.
to_csv(d) ==
    <<HeaderLine(d.columns)>> \o
    [i \in 1..Len(d.rows) |->
        [k \in 1..Len(d.columns) |-> FieldText(d.rows[i].cells[d.columns[k]])]]

\* A variant of the except clauses without the clause for FileNotFoundError.
MutHandlerPrefix(sc, exc) ==
    IF exc.error = "ValueError" THEN "Invalid input"
    ELSE IF sc = "filter" THEN "Error filtering job applications"
    ELSE "Error transforming email labels"

\* The except clauses of the scripts: the start of the logged error.
HandlerPrefix(sc, exc) ==
    IF exc.error = "FileNotFoundError" THEN "File not found"
    ELSE IF exc.error = "ValueError" THEN "Invalid input"
    ELSE IF sc = "filter" THEN "Error filtering job applications"
    ELSE "Error transforming email labels"

\* The elements of s that are in the set S, in order.
RECURSIVE Only(_, _)
Only(s, S) ==
    IF s = <<>> THEN <<>>
    ELSE (IF s[1] \in S THEN <<s[1]>> ELSE <<>>) \o Only(Tail(s), S)

\* A variant of the output branch that saves in a dry run too.
MutSaves(a) == TRUE

\* Whether the output branch saves the table: not in a dry run.
Saves(a) == ~a.dry_run

\* The columns transform_labels requires.
RequiredColumns == <<"Labels", "From">>

(***************************************************************************)
(* Inputs of the scripts.                                                  *)
(***************************************************************************)

\* A CSV file has at most MaxCsvRows lines after its header.
MaxCsvRows == 2

\* The path whose file takes every content of the model.
InCsv == <<"i", "n", ".", "c", "s", "v">>

\* The other --input paths: an upper case ending, another ending, no
\* ending, an ending without the dot, and the ending alone.
OtherPaths ==
    {<<"I", "N", ".", "C", "S", "V">>, <<"i", "n", ".", "t", "x", "t">>,
     <<"i", "n">>, <<"i", "n", "c", "s", "v">>, DotCsv}

\* The --output path.
OutCsv == <<"o", "u", "t", ".", "c", "s", "v">>

\* The lines of the CSV files of the filter: per header, the rows a line
\* is drawn from.
FilterCsvRows(header) ==
    IF Len(header) = 2
    THEN {<<<<"a", "b">>, <<"c">>>>, <<<<"c">>, <<"c">>>>, <<<<"c">>, <<>>>>}
    ELSE {<<OtherCell>>}

FilterCsvHeaders == {<<"Subject", "Body">>, <<"Subject", "From">>, <<"Date">>}

\* The line of a CSV file of the transform with the given Labels and From.
TransformCsvRow(header, labels, from) ==
    [k \in 1..Len(header) |->
        CASE header[k] = "Labels" -> labels
          [] header[k] = "From" -> from
          [] OTHER -> OtherCell]

TransformCsvRows(header) ==
    {TransformCsvRow(header, lf[1], lf[2]) :
        lf \in {<<PyRepr(<<LabelJobsA>>), <<"b">>>>,
                <<PyRepr(<<LabelJobB>>), <<"b">>>>,
                <<PyRepr(<<LabelJobsA>>), SentPrefix>>,
                <<PyRepr(<<LabelInbox>>), <<>>>>}}

TransformCsvHeaders ==
    {FetchedColumns, Without(FetchedColumns, {"To"}), Without(FetchedColumns, {"Labels"})}

\* The contents of the input file: the empty file, an unreadable file, and
\* per header the header alone, the header and a blank line, and the
\* header with up to MaxCsvRows rows.
CsvContents(sc) ==
    {<<>>, Unreadable} \cup
    UNION {{<<HeaderLine(h), <<>>>>} \cup
           {<<HeaderLine(h)>> \o rows :
              rows \in SeqsUpTo(IF sc = "filter" THEN FilterCsvRows(h)
                                ELSE TransformCsvRows(h), MaxCsvRows)} :
             h \in IF sc = "filter" THEN FilterCsvHeaders ELSE TransformCsvHeaders}

\* The content of the files at the other paths.
PlainCsv == <<HeaderLine(<<"Subject", "Body">>), <<<<"a", "b">>, <<"c">>>>>>

\* The file systems: the input path names no file, or a file with one of
\* the contents.
FileSystems(sc, input) ==
    {<<>>} \cup
    {[p \in {input} |-> c] :
        c \in IF input = InCsv THEN CsvContents(sc) ELSE {PlainCsv}}

\* The --columns, --keywords and --exclude-keywords lists of the filter.
CliColumnChoices ==
    {<<"Subject", "Body">>, <<"To", "Body">>, <<"To">>, <<"Body", "To", "Subject">>}
CliKeywordChoices == {<<<<"a">>>>, <<<<"B">>, <<"c">>>>}
CliExcludeChoices == {<<<<"B">>>>, <<<<"a", "|", "c">>>>}

InitCli ==
    /\ pc = "parse"
    /\ script \in {"filter", "transform"}
    /\ args \in [input : {InCsv} \cup OtherPaths, output : {OutCsv},
                 dry_run : BOOLEAN, verbose : BOOLEAN]
    /\ files \in FileSystems(script, args.input)
    /\ IF script = "filter"
       THEN /\ columns \in CliColumnChoices
            /\ keywords \in CliKeywordChoices
            /\ exclude_keywords \in CliExcludeChoices
            /\ label_name = NoValue
       ELSE /\ columns = NoValue
            /\ keywords = NoValue
            /\ exclude_keywords = NoValue
            /\ label_name \in LabelNameChoices
    /\ df = NoValue
    /\ filtered_df = NoValue
    /\ result = NoValue
    /\ trace = <<>>
    /\ to_csv_calls = <<>>
    /\ stdout = <<>>
    /\ log = <<>>
    /\ exit_status = None
    /\ NoFetch
    /\ NoEnv

(***************************************************************************)
(* The steps of filter_job_applications() and transform_labels().          *)
(***************************************************************************)

\* An exception reaches the except clauses: the error is logged and
\* sys.exit(1) ends the run.
Fail(exc) ==
    /\ log' = Append(log, [level |-> "error",
                           prefix |-> HandlerPrefix(script, exc),
                           exception |-> exc])
    /\ exit_status' = 1
    /\ pc' = "exit"
    /\ UNCHANGED envVars

\* args = parse_arguments() and the logging set-up.
ParseArguments ==
    /\ pc = "parse"
    /\ pc' = "validate"
    /\ UNCHANGED <<df, filterVars, label_name, result, fetchVars, script, args, files,
                   filtered_df, trace, to_csv_calls, stdout, log, exit_status>>
    /\ UNCHANGED envVars

\* validate_input_file(args.input)
ValidateInput ==
    /\ pc = "validate"
    /\ trace' = Append(trace, "validate")
    /\ result' = validate_input_file(args.input)
    /\ IF result'.ok
       THEN pc' = "load" /\ UNCHANGED <<log, exit_status>>
       ELSE Fail(result')
    /\ UNCHANGED <<df, filterVars, label_name, fetchVars, script, args, files,
                   filtered_df, to_csv_calls, stdout>>
    /\ UNCHANGED envVars

\* df = load_email_data(args.input)
LoadData ==
    /\ pc = "load"
    /\ trace' = Append(trace, "load")
    /\ result' = load_email_data(args.input)
    /\ IF result'.ok
       THEN df' = result'.value /\ pc' = "columns" /\ UNCHANGED <<log, exit_status>>
       ELSE Fail(result') /\ UNCHANGED df
    /\ UNCHANGED <<filterVars, label_name, fetchVars, script, args, files,
                   filtered_df, to_csv_calls, stdout>>
    /\ UNCHANGED envVars

\* A variant of the available columns that keeps every requested column.
MutAvailableColumns(cols, d) == cols

\* available_columns = [col for col in args.columns if col in df.columns]
AvailableColumns(cols, d) == Only(cols, Range(d.columns))

\* filter_job_applications: the check of the search columns.  Missing
\* columns are warned about and left out; with none left the run fails.
CheckSearchColumns ==
    /\ pc = "columns"
    /\ script = "filter"
    /\ trace' = Append(trace, "columns")
    /\ LET missing_columns == Without(columns, Range(df.columns))
           available_columns == AvailableColumns(columns, df)
       IN IF missing_columns = <<>>
          THEN pc' = "process" /\ UNCHANGED <<columns, log, exit_status>>
          ELSE IF available_columns = <<>>
          THEN /\ log' = log \o
                    <<[level |-> "warning", prefix |-> "Missing columns in dataset",
                       exception |-> None],
                      [level |-> "error",
                       prefix |-> HandlerPrefix(script,
                           RaisedWith("ValueError",
                               "None of the specified columns exist in the dataset")),
                       exception |-> RaisedWith("ValueError",
                               "None of the specified columns exist in the dataset")]>>
               /\ exit_status' = 1
               /\ pc' = "exit"
               /\ UNCHANGED columns
          ELSE /\ log' = Append(log, [level |-> "warning",
                                      prefix |-> "Missing columns in dataset",
                                      exception |-> None])
               /\ columns' = available_columns
               /\ pc' = "process"
               /\ UNCHANGED exit_status
    /\ UNCHANGED <<df, keywords, exclude_keywords, label_name, result, fetchVars, script,
                   args, files, filtered_df, to_csv_calls, stdout>>
    /\ UNCHANGED envVars

\* transform_labels: the check of the required columns.
CheckRequiredColumns ==
    /\ pc = "columns"
    /\ script = "transform"
    /\ trace' = Append(trace, "columns")
    /\ LET missing_columns == Without(RequiredColumns, Range(df.columns))
       IN IF missing_columns = <<>>
          THEN pc' = "process" /\ UNCHANGED <<log, exit_status>>
          ELSE Fail(RaisedWith("ValueError", "Required columns not found in dataset"))
    /\ UNCHANGED <<df, filterVars, label_name, result, fetchVars, script, args, files,
                   filtered_df, to_csv_calls, stdout>>
    /\ UNCHANGED envVars

\* filtered_df = extract_job_application_rows(df, columns, keywords,
\* exclude_keywords)
FilterRows ==
    /\ pc = "process"
    /\ script = "filter"
    /\ trace' = Append(trace, "filter")
    /\ filtered_df' = extract_job_application_rows(df, columns, keywords, exclude_keywords)
    /\ result' = Returned(filtered_df')
    /\ pc' = "output"
    /\ UNCHANGED <<df, filterVars, label_name, fetchVars, script, args, files,
                   to_csv_calls, stdout, log, exit_status>>
    /\ UNCHANGED envVars

\* transformed_df = transform_dataframe(df, label_name)
TransformRows ==
    /\ pc = "process"
    /\ script = "transform"
    /\ trace' = Append(trace, "filter")
    /\ result' = transform_dataframe(df, label_name)
    /\ IF result'.ok
       THEN filtered_df' = result'.value /\ pc' = "output"
            /\ UNCHANGED <<log, exit_status>>
       ELSE Fail([ok |-> FALSE, error |-> result'.error, message |-> ""])
            /\ UNCHANGED filtered_df
    /\ UNCHANGED <<df, filterVars, label_name, fetchVars, script, args, files,
                   to_csv_calls, stdout>>
    /\ UNCHANGED envVars

\* The columns of the sample the dry run prints with --verbose.
SampleColumns(sc) ==
    IF sc = "filter" THEN <<"Subject", "From", "Date">>
    ELSE <<"Subject", "Name", "Email", "Date", "ApplicationStatus">>

\* What the dry run prints: the counts and, with --verbose and a row in
\* the result, a sample of the result or a note that it has none of the
\* sample's columns.
DryRunPrints ==
    <<"Dry run results", "Total", "Found", "Percentage">> \o
    (IF args.verbose /\ Len(filtered_df.rows) > 0
     THEN <<"Sample results">> \o
          (IF Only(SampleColumns(script), Range(filtered_df.columns)) # <<>>
           THEN <<"sample rows">>
           ELSE <<"No standard email columns found for preview">>)
     ELSE <<>>)

\* len(filtered_df)/len(df)*100: the percentage (its whole part), or the
\* ZeroDivisionError of a division by zero.
Percentage(part, whole) ==
    IF whole = 0 THEN RaisedWith("ZeroDivisionError", "division by zero")
    ELSE Returned((part * 100) \div whole)

\* The output branch of a dry run: only prints.  The percentage is printed
\* after the two counts.
DryRun ==
    /\ pc = "output"
    /\ ~Saves(args)
    /\ trace' = Append(trace, "output")
    /\ LET rate == Percentage(Len(filtered_df.rows), Len(df.rows))
       IN IF rate.ok
          THEN /\ stdout' = stdout \o DryRunPrints
               /\ exit_status' = 0
               /\ pc' = "done"
               /\ UNCHANGED log
          ELSE /\ stdout' = stdout \o <<"Dry run results", "Total", "Found">>
               /\ Fail(rate)
    /\ UNCHANGED <<df, filterVars, label_name, result, fetchVars, script, args, files,
                   filtered_df, to_csv_calls>>
    /\ UNCHANGED envVars

\* The output branch that saves: filtered_df.to_csv(args.output,
\* index=False) and the summary, whose last line is the percentage.
Save ==
    /\ pc = "output"
    /\ Saves(args)
    /\ trace' = Append(trace, "output")
    /\ to_csv_calls' = Append(to_csv_calls,
          [path |-> args.output, table |-> filtered_df, index |-> FALSE])
    /\ files' = [p \in DOMAIN files \cup {args.output} |->
                    IF p = args.output THEN to_csv(filtered_df) ELSE files[p]]
    /\ LET rate == Percentage(Len(filtered_df.rows), Len(df.rows))
       IN IF rate.ok
          THEN /\ stdout' = stdout \o <<"complete", "Input", "Output", "Filter rate">>
               /\ exit_status' = 0
               /\ pc' = "done"
               /\ UNCHANGED log
          ELSE /\ stdout' = stdout \o <<"complete", "Input", "Output">>
               /\ Fail(rate)
    /\ UNCHANGED <<df, filterVars, label_name, result, fetchVars, script, args,
                   filtered_df>>
    /\ UNCHANGED envVars

\* to_csv cannot write the output path (OSError): the run fails.
SaveFails ==
    /\ pc = "output"
    /\ Saves(args)
    /\ trace' = Append(trace, "output")
    /\ to_csv_calls' = Append(to_csv_calls,
          [path |-> args.output, table |-> filtered_df, index |-> FALSE])
    /\ Fail(RaisedWith("OSError", "Cannot save file"))
    /\ UNCHANGED <<df, filterVars, label_name, result, fetchVars, script, args, files,
                   filtered_df, stdout>>
    /\ UNCHANGED envVars

NextCli ==
    \/ ParseArguments
    \/ ValidateInput
    \/ LoadData
    \/ CheckSearchColumns
    \/ CheckRequiredColumns
    \/ FilterRows
    \/ TransformRows
    \/ DryRun
    \/ Save
    \/ SaveFails

SpecCli == InitCli /\ [][NextCli]_vars

(***************************************************************************)
(* Claims about the scripts.                                               *)
(***************************************************************************)

\* The run of the script has ended.
Finished == pc \in {"done", "exit"}

\* Whether s is a prefix of t.
IsPrefix(s, t) == Len(s) <= Len(t) /\ SubSeq(t, 1, Len(s)) = s

\* The four steps C7 names, in the order it names.
NamedSteps == <<"validate", "load", "filter", "output">>

\* What a dry run prints of the counts.
CountPrints == {"Dry run results", "Total", "Found", "Percentage"}

\* What a dry run prints of the sample with --verbose.
SamplePrints ==
    {"Sample results", "sample rows", "No standard email columns found for preview"}

\* The part of C7 about the order of the steps and the saving: the named
\* steps are entered in the named order; to_csv is called at most once, not
\* in a dry run, only after the filter step, with the filtered table, the
\* --output path and index=False; a run that reaches the output step calls
\* it exactly once if and only if --dry-run is not set; a dry run writes no
\* file.
C7_OrderAndSaving ==
    script = "filter" =>
        /\ IsPrefix(Only(trace, Range(NamedSteps)), NamedSteps)
        /\ Len(to_csv_calls) <= 1
        /\ to_csv_calls # <<>> =>
              /\ ~args.dry_run
              /\ IsPrefix(<<"validate", "load", "filter">>,
                          Only(trace, Range(NamedSteps)))
              /\ to_csv_calls[1] =
                    [path |-> args.output, table |-> filtered_df, index |-> FALSE]
              /\ filtered_df =
                    extract_job_application_rows(df, columns, keywords, exclude_keywords)
        /\ (Finished /\ "output" \in Range(trace)) =>
              (Len(to_csv_calls) = 1 <=> ~args.dry_run)
        /\ args.dry_run => (to_csv_calls = <<>> /\ args.output \notin DOMAIN files)
        /\ args.output \in DOMAIN files =>
              (pc = "done" /\ files[args.output] = to_csv(filtered_df))

\* C7 as stated: the order and the saving as above, and a dry run prints
\* only the counts.
C7_Original ==
    /\ C7_OrderAndSaving
    /\ (script = "filter" /\ args.dry_run) =>
          /\ Range(stdout) \subseteq CountPrints
          /\ pc = "done" => Range(stdout) = CountPrints

\* C7, amended: the order and the saving as above; a dry run prints the
\* counts and, only with --verbose and a kept row, a sample after them.
C7_DryRunPrintsCountsAndVerboseSample ==
    /\ C7_OrderAndSaving
    /\ (script = "filter" /\ args.dry_run) =>
          /\ Range(stdout) \subseteq CountPrints \cup SamplePrints
          /\ pc = "done" => CountPrints \subseteq Range(stdout)
          /\ (Range(stdout) \cap SamplePrints # {}) =>
                (args.verbose /\ Len(filtered_df.rows) > 0)

\* C7 witness: a run of the filter without --dry-run has saved a table
\* with a kept row.
C7_Witness ==
    /\ script = "filter"
    /\ pc = "done"
    /\ ~args.dry_run
    /\ Len(to_csv_calls) = 1
    /\ Len(filtered_df.rows) >= 1
    /\ Len(filtered_df.rows) < Len(df.rows)

\* Whether an error with the given start has been logged.
ReportedAs(prefix) ==
    \E i \in 1..Len(log) : log[i].level = "error" /\ log[i].prefix = prefix

\* The run ended before the output step: validation, loading, the column
\* check or the filter/transform step failed.
StepFailed == Finished /\ "output" \notin Range(trace)

\* The part of C8 about the exit status: a run in which one of the steps
\* before the output failed ends with status 1, has not called to_csv and
\* has written no output file; a run that ends with status 0 has passed
\* every step and logged no error.
C8_FailureExitsWithOne ==
    Finished =>
        /\ StepFailed =>
              /\ exit_status = 1
              /\ to_csv_calls = <<>>
              /\ args.output \notin DOMAIN files
              /\ \E i \in 1..Len(log) : log[i].level = "error"
        /\ exit_status = 0 =>
              /\ trace = <<"validate", "load", "columns", "filter", "output">>
              /\ \A i \in 1..Len(log) : log[i].level # "error"
        /\ exit_status \in {0, 1}

\* C8 as stated: the exit status as above, and a missing input file is
\* reported as 'File not found'.
C8_Original ==
    /\ C8_FailureExitsWithOne
    /\ (Finished /\ args.input \notin DOMAIN files) => ReportedAs("File not found")

\* C8, amended: the exit status as above; a missing input file whose path
\* ends in .csv is reported as 'File not found', and a missing input file
\* with another path as 'Invalid input'.
C8_MissingCsvIsFileNotFound ==
    /\ C8_FailureExitsWithOne
    /\ (Finished /\ args.input \notin DOMAIN files) =>
          IF EndsWith(Lower(args.input), DotCsv)
          THEN ReportedAs("File not found")
          ELSE ReportedAs("Invalid input") /\ ~ReportedAs("File not found")

\* C8 witness: a run on a missing .csv path has ended with status 1 and
\* the report 'File not found'.
C8_Witness ==
    /\ Finished
    /\ args.input \notin DOMAIN files
    /\ EndsWith(Lower(args.input), DotCsv)
    /\ exit_status = 1
    /\ ReportedAs("File not found")

\* Whether the last four characters of the path are ".csv" in some case.
HasCsvEnding(path) ==
    /\ Len(path) >= 4
    /\ \A j \in 1..4 : LowerChar(path[Len(path) - 4 + j]) = DotCsv[j]

\* C9: validate_input_file raises ValueError for a path without the .csv
\* ending (in any case), also when the path names no file; raises
\* FileNotFoundError for a .csv path that names no file; and returns for
\* a .csv path that names a file.
C9_ValidateInputFile ==
    trace = <<"validate">> =>
        result =
            IF ~HasCsvEnding(args.input)
            THEN RaisedWith("ValueError", "Input file must be a CSV file")
            ELSE IF args.input \notin DOMAIN files
            THEN RaisedWith("FileNotFoundError", "Input file not found")
            ELSE Returned(None)

\* C9 witness: the validation of a path that neither ends in .csv nor
\* names a file has raised ValueError.
C9_Witness ==
    /\ trace = <<"validate">>
    /\ args.input \notin DOMAIN files
    /\ ~HasCsvEnding(args.input)
    /\ ~result.ok
    /\ result.error = "ValueError"

\* The lines of a file that hold fields: its header and its data rows.
FilledLines(content) ==
    IF content = Unreadable THEN <<>>
    ELSE SelectSeq(content, LAMBDA line : line # <<>>)

\* C10: load_email_data raises an exception that starts 'Error loading
\* CSV file', and sets no table, for every file without a data row or
\* without columns; for every file with a data row it returns the table
\* with the file's columns and one row per data row, with its values.
C10_LoadRejectsEmpty ==
    trace = <<"validate", "load">> =>
        LET lines == FilledLines(files[args.input])
        IN IF Len(lines) <= 1
           THEN /\ ~result.ok
                /\ result.error = "Exception"
                /\ result.message = "Error loading CSV file"
                /\ df = NoValue
                /\ pc = "exit"
           ELSE /\ result.ok
                /\ df = result.value
                /\ HeaderLine(df.columns) = lines[1]
                /\ Len(df.rows) = Len(lines) - 1
                /\ \A i \in 1..Len(df.rows) :
                      \A k \in 1..Len(df.columns) :
                          FieldText(df.rows[i].cells[df.columns[k]]) = lines[i + 1][k]

\* C10 witness: the load of a file that holds a header and no data row
\* has raised.
C10_Witness ==
    /\ trace = <<"validate", "load">>
    /\ Len(FilledLines(files[args.input])) = 1
    /\ ~result.ok

(***************************************************************************)
(* fetch_gmail_data.py: build_query.  The arguments are the record args;   *)
(* an option that was not given is None, for --last-days NoInt, and a      *)
(* given --last-days N is IntArg(N).  A date is [year, month, day].        *)
(***************************************************************************)

\* The value of an int option that was not given, and of one given as n.
NoInt == <<>>
IntArg(n) == <<n>>

\* Python's truth of an int option: given and not zero.
TruthyInt(x) == x # NoInt /\ x[1] # 0

IsLeap(y) == y % 4 = 0 /\ (y % 100 # 0 \/ y % 400 = 0)

DaysInMonth(y, m) ==
    IF m = 2 THEN (IF IsLeap(y) THEN 29 ELSE 28)
    ELSE IF m \in {4, 6, 9, 11} THEN 30 ELSE 31

\* The number of days before January 1st of the year y.
DaysBeforeYear(y) ==
    LET p == y - 1 IN p * 365 + (p \div 4) - (p \div 100) + (p \div 400)

\* The number of days of the year y before the first of the month m.
RECURSIVE DaysBeforeMonth(_, _)
DaysBeforeMonth(y, m) ==
    IF m = 1 THEN 0 ELSE DaysBeforeMonth(y, m - 1) + DaysInMonth(y, m - 1)

\* date.toordinal(): the number of the day, 1 for the first day of year 1.
ToOrdinal(d) == DaysBeforeYear(d.year) + DaysBeforeMonth(d.year, d.month) + d.day

\* The years the dates of the model lie in.
Years == 2023..2026

\* date.fromordinal(n)
FromOrdinal(n) ==
    LET y == CHOOSE yy \in Years :
                 DaysBeforeYear(yy) < n /\ n <= DaysBeforeYear(yy + 1)
        r == n - DaysBeforeYear(y)
        m == CHOOSE mm \in 1..12 :
                 DaysBeforeMonth(y, mm) < r
                 /\ r <= DaysBeforeMonth(y, mm) + DaysInMonth(y, mm)
    IN [year |-> y, month |-> m, day |-> r - DaysBeforeMonth(y, m)]

\* end_date - timedelta(days=n)
MinusDays(d, n) == FromOrdinal(ToOrdinal(d) - n)

Digit(n) == <<"0", "1", "2", "3", "4", "5", "6", "7", "8", "9">>[n + 1]

\* The decimal digits of n, padded with zeros to the given width.
RECURSIVE Padded(_, _)
Padded(n, width) ==
    IF width = 0 THEN <<>> ELSE Padded(n \div 10, width - 1) \o <<Digit(n % 10)>>

\* d.strftime('%Y/%m/%d')
strftime(d) ==
    Padded(d.year, 4) \o <<"/">> \o Padded(d.month, 2) \o <<"/">> \o Padded(d.day, 2)

AfterPrefix == <<"a", "f", "t", "e", "r", ":">>
BeforePrefix == <<"b", "e", "f", "o", "r", "e", ":">>

\* " ".join(parts)
RECURSIVE JoinWith(_, _)
JoinWith(sep, parts) ==
    IF parts = <<>> THEN <<>>
    ELSE IF Len(parts) = 1 THEN parts[1]
    ELSE parts[1] \o sep \o JoinWith(sep, Tail(parts))

\* A variant of the date range that lets --after hide --before.
MutDateRangeParts(a) ==
    IF Truthy(a.after) THEN <<AfterPrefix \o a.after>>
    ELSE IF Truthy(a.before) THEN <<BeforePrefix \o a.before>> ELSE <<>>

\* query_parts of build_query
DateRangeParts(a) ==
    (IF Truthy(a.after) THEN <<AfterPrefix \o a.after>> ELSE <<>>) \o
    (IF Truthy(a.before) THEN <<BeforePrefix \o a.before>> ELSE <<>>)

\* build_query(args), called on the date today.
build_query(a, today) ==
    IF TruthyInt(a.last_days)
    THEN AfterPrefix \o strftime(MinusDays(today, a.last_days[1])) \o <<" ">> \o
         BeforePrefix \o strftime(today)
    ELSE IF Truthy(a.after) \/ Truthy(a.before)
    THEN JoinWith(<<" ">>, DateRangeParts(a))
    ELSE a.query

(***************************************************************************)
(* Inputs and calls of build_query.                                        *)
(***************************************************************************)

\* --last-days takes the values -1 .. MaxLastDays.
MaxLastDays == 2

Date(y, m, d) == [year |-> y, month |-> m, day |-> d]

\* The dates of the run: after a February of 28 and of 29 days, the first
\* day of a year and a day late in a month.
TodayChoices == {Date(2025, 3, 1), Date(2024, 3, 1), Date(2025, 1, 1), Date(2025, 3, 30)}

\* The default of --query, and another query.
DefaultQuery ==
    AfterPrefix \o strftime(Date(2025, 3, 1)) \o <<" ">> \o
    BeforePrefix \o strftime(Date(2025, 3, 30))
QueryArgChoices == {DefaultQuery, <<"i", "s", ":", "x">>}

\* --after and --before: not given, given as the empty text, given a date.
AfterChoices == {None, <<>>, strftime(Date(2025, 1, 2))}
BeforeChoices == {None, <<>>, strftime(Date(2025, 2, 3))}

LastDaysChoices == {NoInt} \cup {IntArg(n) : n \in -1..MaxLastDays}

TokenPath == <<"t", "o", "k", "e", "n", ".", "j", "s", "o", "n">>

\* The arguments parse_arguments of fetch_gmail_data.py can return.
QueryArgs ==
    [query : QueryArgChoices, output : {OutCsv}, token : {TokenPath},
     after : AfterChoices, before : BeforeChoices, last_days : LastDaysChoices,
     verbose : {FALSE}]

InitQuery ==
    /\ pc = "call"
    /\ args \in QueryArgs
    /\ now \in TodayChoices
    /\ result = NoValue
    /\ script = NoValue
    /\ files = NoValue
    /\ filtered_df = NoValue
    /\ trace = NoValue
    /\ to_csv_calls = NoValue
    /\ stdout = NoValue
    /\ log = NoValue
    /\ exit_status = NoValue
    /\ creds = NoValue
    /\ sys_path = NoValue
    /\ sys_modules = NoValue
    /\ namespace = NoValue
    /\ df = NoValue
    /\ columns = NoValue
    /\ keywords = NoValue
    /\ exclude_keywords = NoValue
    /\ label_name = NoValue
    /\ NoFetch

\* query = build_query(args)
BuildQuery ==
    /\ pc = "call"
    /\ result' = Returned(build_query(args, now))
    /\ pc' = "return"
    /\ UNCHANGED <<df, filterVars, label_name, fetchVars, cliVars, envVars>>

NextQuery == BuildQuery

SpecQuery == InitQuery /\ [][NextQuery]_vars

(***************************************************************************)
(* Claims about build_query.                                               *)
(***************************************************************************)

\* The day before d, and the day after d, found on the calendar.
PrevDay(d) ==
    IF d.day > 1 THEN Date(d.year, d.month, d.day - 1)
    ELSE IF d.month > 1
    THEN Date(d.year, d.month - 1, DaysInMonth(d.year, d.month - 1))
    ELSE Date(d.year - 1, 12, 31)

NextDay(d) ==
    IF d.day < DaysInMonth(d.year, d.month) THEN Date(d.year, d.month, d.day + 1)
    ELSE IF d.month < 12 THEN Date(d.year, d.month + 1, 1)
    ELSE Date(d.year + 1, 1, 1)

\* The date n days before d, day by day (after d for a negative n).
RECURSIVE DaysBack(_, _)
DaysBack(d, n) ==
    IF n = 0 THEN d
    ELSE IF n > 0 THEN DaysBack(PrevDay(d), n - 1)
    ELSE DaysBack(NextDay(d), n + 1)

\* C11: whenever --last-days is given a value N, build_query returns
\* 'after:<today minus N days> before:<today>' with the dates as
\* YYYY/MM/DD, whatever --after, --before and --query are.
C11_LastDaysOverrides ==
    (pc = "return" /\ args.last_days # NoInt) =>
        result = Returned(AfterPrefix \o strftime(DaysBack(now, args.last_days[1]))
                          \o <<" ">> \o BeforePrefix \o strftime(now))

HasText(x) == x # None /\ Len(x) > 0

FetchScopes == <<<<"g", "m", "a", "i", "l", ".", "r", "e", "a", "d", "o", "n", "l", "y">>>>

\* The contents of a token file: an authorized user file, and a file that
\* is none.
GoodToken == <<"{", "t", "}">>
BadToken == <<"{">>

\* Credentials.from_authorized_user_file(path, scopes)
from_authorized_user_file(path, scopes) ==
    IF ~Exists(path) THEN Raised("FileNotFoundError")
    ELSE IF files[path] = BadToken THEN Raised("ValueError")
    ELSE Returned([token |-> files[path], scopes |-> scopes])

Call(name, arguments) == [call |-> name, with |-> arguments]

\* A variant of the except clauses that exits with status 0.
MutFetchExitStatus(exc) == 0

\* The status the except clauses of fetch_gmail_data exit with.
FetchExitStatus(exc) == 1

\* The except clauses of fetch_gmail_data after the calls made so far: the
\* error is logged and sys.exit ends the run.
FetchFail(exc, calls) ==
    /\ log' = Append(log, [level |-> "error",
                           prefix |-> IF exc.error = "FileNotFoundError"
                                      THEN "File not found"
                                      ELSE "Error fetching Gmail data",
                           exception |-> exc])
    /\ exit_status' = FetchExitStatus(exc)
    /\ trace' = Append(calls, Call("sys.exit", <<exit_status'>>))
    /\ pc' = "exit"

\* args = parse_arguments() and logging.basicConfig(...)
RunParseArguments ==
    /\ script = "fetch"
    /\ pc = "run_parse"
    /\ pc' = "run_token"
    /\ UNCHANGED <<df, filterVars, label_name, result, fetchVars, cliVars, envVars>>

\* A variant of the token check that goes on without a token file.
MutTokenMissing(path) == FALSE

\* not os.path.exists(args.token)
TokenMissing(path) == ~Exists(path)

\* if not os.path.exists(args.token): two errors are logged and
\* sys.exit(1) ends the run.
CheckToken ==
    /\ script = "fetch"
    /\ pc = "run_token"
    /\ IF TokenMissing(args.token)
       THEN /\ log' = log \o
                  <<[level |-> "error", prefix |-> "Token file not found",
                     exception |-> NoValue],
                    [level |-> "error", prefix |-> "Please run gmail_auth_setup.py first",
                     exception |-> NoValue]>>
            /\ trace' = trace \o <<Call("os.path.exists", <<args.token>>),
                                   Call("sys.exit", <<1>>)>>
            /\ exit_status' = 1
            /\ pc' = "exit"
       ELSE /\ trace' = Append(trace, Call("os.path.exists", <<args.token>>))
            /\ pc' = "run_credentials"
            /\ UNCHANGED <<log, exit_status>>
    /\ UNCHANGED <<df, filterVars, label_name, result, fetchVars, script, args, files,
                   filtered_df, to_csv_calls, stdout, envVars>>

\* Another process removes the token file after the check.
TokenRemoved ==
    /\ script = "fetch"
    /\ pc = "run_credentials"
    /\ Exists(args.token)
    /\ files' = [p \in DOMAIN files \ {args.token} |-> files[p]]
    /\ UNCHANGED <<pc, df, filterVars, label_name, result, fetchVars, script, args,
                   filtered_df, trace, to_csv_calls, stdout, log, exit_status, envVars>>

\* creds = Credentials.from_authorized_user_file(args.token, SCOPES)
LoadCredentials ==
    /\ script = "fetch"
    /\ pc = "run_credentials"
    /\ LET r == from_authorized_user_file(args.token, FetchScopes)
           calls == Append(trace, Call("from_authorized_user_file",
                                       <<args.token, FetchScopes>>))
       IN /\ result' = r
          /\ IF r.ok
             THEN /\ creds' = r.value
                  /\ trace' = calls
                  /\ pc' = "run_build"
                  /\ UNCHANGED <<log, exit_status>>
             ELSE /\ FetchFail(r, calls)
                  /\ UNCHANGED creds
    /\ UNCHANGED <<df, filterVars, label_name, fetchVars, script, args, files,
                   filtered_df, to_csv_calls, stdout, now, sys_path, sys_modules,
                   namespace>>

\* The mailboxes the built service can serve: no message, one page of one
\* message, and two pages.
RunMailboxes ==
    {[pages |-> ps, headers |-> [id \in MessageIds |->
          <<Header("Date"), Header("From"), Header("Subject")>>]] :
       ps \in {<<<<>>>>, <<<<<<"m", "1">>>>>>, <<<<<<"m", "1">>>>, <<<<"m", "2">>>>>>}}

\* service = build('gmail', 'v1', credentials=creds)
BuildService ==
    /\ script = "fetch"
    /\ pc = "run_build"
    /\ trace' = Append(trace, Call("build", <<"gmail", "v1", creds>>))
    /\ service' \in RunMailboxes
    /\ pc' = "run_query"
    /\ UNCHANGED <<df, filterVars, label_name, result, q, label_mapping, page_token,
                   response, cursor, message_dicts, requests, script, args, files,
                   filtered_df, to_csv_calls, stdout, log, exit_status, envVars>>

\* build(...) raises: the discovery document cannot be fetched.
BuildServiceFails ==
    /\ script = "fetch"
    /\ pc = "run_build"
    /\ result' = Raised("HttpError")
    /\ FetchFail(result', Append(trace, Call("build", <<"gmail", "v1", creds>>)))
    /\ UNCHANGED <<df, filterVars, label_name, fetchVars, script, args, files,
                   filtered_df, to_csv_calls, stdout, envVars>>

\* A variant of the query of the run that passes --query on.
MutRunQuery(a, today) == a.query

\* query = build_query(args)
RunQuery(a, today) == build_query(a, today)

\* query = build_query(args); df = fetch_gmail_messages_as_df(service,
\* q=query): the call, with the default of columns.
CallFetch ==
    /\ script = "fetch"
    /\ pc = "run_query"
    /\ q' = RunQuery(args, now)
    /\ trace' = trace \o <<Call("build_query", <<args>>),
                           Call("fetch_gmail_messages_as_df", <<service, q'>>)>>
    /\ columns' = DefaultHeaderColumns
    /\ pc' = "labels"
    /\ UNCHANGED <<df, keywords, exclude_keywords, label_name, result, service,
                   label_mapping, page_token, response, cursor, message_dicts,
                   requests, script, args, files, filtered_df, to_csv_calls, stdout,
                   log, exit_status, envVars>>

\* fetch_gmail_messages_as_df raises: the except clauses.
FetchRaised ==
    /\ script = "fetch"
    /\ pc = "raised"
    /\ FetchFail(result, trace)
    /\ UNCHANGED <<df, filterVars, label_name, result, fetchVars, script, args, files,
                   filtered_df, to_csv_calls, stdout, envVars>>

\* fetch_gmail_messages_as_df returns: df is the table.
FetchReturned ==
    /\ script = "fetch"
    /\ pc = "return"
    /\ df' = result.value
    /\ pc' = "run_save"
    /\ UNCHANGED <<filterVars, label_name, result, fetchVars, cliVars, envVars>>

\* What to_csv writes of a fetched table: the Labels cell, a list of label
\* names, is written as its str().
StrLabels(d) ==
    [columns |-> d.columns,
     rows |-> [i \in 1..Len(d.rows) |->
        [index |-> d.rows[i].index,
         cells |-> [c \in DOMAIN d.rows[i].cells |->
            IF c = "Labels" /\ d.rows[i].cells[c] # NaN
            THEN PyRepr(d.rows[i].cells[c])
            ELSE d.rows[i].cells[c]]]]]

\* df.to_csv(args.output, index=False)
SaveCsv ==
    /\ script = "fetch"
    /\ pc = "run_save"
    /\ trace' = Append(trace, Call("to_csv", <<args.output, df, FALSE>>))
    /\ to_csv_calls' = Append(to_csv_calls,
          [path |-> args.output, table |-> df, index |-> FALSE])
    /\ files' = [p \in DOMAIN files \cup {args.output} |->
                    IF p = args.output THEN to_csv(StrLabels(df)) ELSE files[p]]
    /\ exit_status' = 0
    /\ pc' = "done"
    /\ UNCHANGED <<df, filterVars, label_name, result, fetchVars, script, args,
                   filtered_df, stdout, log, envVars>>

\* to_csv cannot write the output path: the except clauses.
SaveCsvFails ==
    /\ script = "fetch"
    /\ pc = "run_save"
    /\ to_csv_calls' = Append(to_csv_calls,
          [path |-> args.output, table |-> df, index |-> FALSE])
    /\ \E e \in {"FileNotFoundError", "PermissionError"} :
          /\ result' = Raised(e)
          /\ FetchFail(result', Append(trace, Call("to_csv", <<args.output, df, FALSE>>)))
    /\ UNCHANGED <<df, filterVars, label_name, fetchVars, script, args, files,
                   filtered_df, stdout, envVars>>

\* The arguments of the runs: each way build_query builds the query.
RunArgs ==
    {a \in QueryArgs :
        /\ a.query = DefaultQuery
        /\ a.before = None
        /\ a.after # <<>>
        /\ a.last_days \in {NoInt, IntArg(1)}}

InitFetchRun ==
    /\ pc = "run_parse"
    /\ script = "fetch"
    /\ args \in RunArgs
    /\ now \in {Date(2025, 3, 1)}
    /\ files \in {<<>>} \cup {[p \in {args.token} |-> c] : c \in {GoodToken, BadToken}}
    /\ creds = NoValue
    /\ sys_path = NoValue
    /\ sys_modules = NoValue
    /\ namespace = NoValue
    /\ filtered_df = NoValue
    /\ trace = <<>>
    /\ to_csv_calls = <<>>
    /\ stdout = <<>>
    /\ log = <<>>
    /\ exit_status = None
    /\ df = NoValue
    /\ columns = NoValue
    /\ keywords = NoValue
    /\ exclude_keywords = NoValue
    /\ label_name = NoValue
    /\ result = NoValue
    /\ service = NoValue
    /\ q = NoValue
    /\ label_mapping = NoValue
    /\ page_token = None
    /\ response = NoValue
    /\ cursor = 0
    /\ message_dicts = <<>>
    /\ requests = <<>>

NextFetchRun ==
    \/ RunParseArguments
    \/ CheckToken
    \/ TokenRemoved
    \/ LoadCredentials
    \/ BuildService
    \/ BuildServiceFails
    \/ CallFetch
    \/ FetchLabelMapping
    \/ EstimateTotal
    \/ ListPage
    \/ ProcessMessage
    \/ NextPage
    \/ BuildFrame
    \/ ApiError
    \/ FetchRaised
    \/ FetchReturned
    \/ SaveCsv
    \/ SaveCsvFails

SpecFetchRun == InitFetchRun /\ [][NextFetchRun]_vars

(***************************************************************************)
(* Claims about the run of fetch_gmail_data.                               *)
(***************************************************************************)

\* The names of the calls made so far, in order.
CallNames == [i \in 1..Len(trace) |-> trace[i].call]

\* The number of calls of sys.exit made so far.
SysExits == Cardinality({i \in 1..Len(trace) : trace[i].call = "sys.exit"})

\* No credentials were loaded, no service was built, no message was
\* fetched and nothing was written.
NothingDone ==
    /\ creds = NoValue
    /\ service = NoValue
    /\ requests = <<>>
    /\ message_dicts = <<>>
    /\ to_csv_calls = <<>>
    /\ args.output \notin DOMAIN files
    /\ \A i \in 1..Len(trace) : trace[i].call \in {"os.path.exists", "sys.exit"}

C14_ExceptionExitsOnce ==
    (/\ script = "fetch"
     /\ pc \in {"done", "exit"}
     /\ Len(trace) >= 2
     /\ trace[2].call = "from_authorized_user_file"
     /\ \A i \in 1..Len(trace) : trace[i].call # "to_csv") =>
        /\ ~result.ok
        /\ pc = "exit"
        /\ exit_status = 1
        /\ SysExits = 1
        /\ trace[Len(trace)] = Call("sys.exit", <<1>>)
        /\ trace[1] = Call("os.path.exists", <<args.token>>)
        /\ to_csv_calls = <<>>
        /\ args.output \notin DOMAIN files

\* C14 witness: the fetch has raised after a first message was read, and
\* the run has exited with status 1.
C14_Witness ==
    /\ script = "fetch"
    /\ pc = "exit"
    /\ message_dicts # <<>>
    /\ result = Raised("HttpError")
    /\ exit_status = 1
    /\ to_csv_calls = <<>>

\* C15: a run that has ended without an error has made exactly these
\* calls, once each and in this order: os.path.exists(args.token),
\* Credentials.from_authorized_user_file(args.token, ...),
\* build('gmail', 'v1', credentials=creds) with the credentials loaded,
\* build_query(args), fetch_gmail_messages_as_df(service, q) with q the
\* result of build_query, and to_csv(args.output, index=False) on the
\* fetched table; sys.exit was not called.
C15_SuccessfulRunOrder ==
    (script = "fetch" /\ pc = "done") =>
        /\ CallNames = <<"os.path.exists", "from_authorized_user_file", "build",
                         "build_query", "fetch_gmail_messages_as_df", "to_csv">>
        /\ trace[1].with = <<args.token>>
        /\ trace[2].with[1] = args.token
        /\ creds = [token |-> GoodToken, scopes |-> trace[2].with[2]]
        /\ trace[3].with = <<"gmail", "v1", creds>>
        /\ trace[5].with = <<service, build_query(args, now)>>
        /\ q = build_query(args, now)
        /\ df = DataFrame(message_dicts)
        /\ Len(df.rows) = Len(Flatten(service.pages))
        /\ trace[6].with = <<args.output, df, FALSE>>
        /\ to_csv_calls = <<[path |-> args.output, table |-> df, index |-> FALSE]>>
        /\ files[args.output] = to_csv(StrLabels(df))
        /\ SysExits = 0

\* C15 witness: a run with --last-days has fetched two messages and
\* written them.
C15_Witness ==
    /\ script = "fetch"
    /\ pc = "done"
    /\ args.last_days # NoInt
    /\ Len(df.rows) = 2
    /\ Len(to_csv_calls) = 1

(***************************************************************************)
(* gmail_auth_setup.py: authorize_gmail_access(args).  The content of a    *)
(* token file is a text between braces whose letters say what the file     *)
(* holds: t an access token, e an expiry that has passed, r a refresh      *)
(* token.  Credentials are [token, scopes] with token such a text;         *)
(* creds = None is NoCreds.  An exception leaves the function: it has no   *)
(* except clause.                                                          *)
(***************************************************************************)

NoCreds == [none |-> TRUE]

ValidRefreshableToken == <<"{", "t", "r", "}">>
ExpiredToken == <<"{", "t", "e", "r", "}">>
ExpiredNoRefreshToken == <<"{", "t", "e", "}">>
NoAccessToken == <<"{", "r", "}">>

\* creds.valid: an access token that has not expired.
Valid(c) == "t" \in Range(c.token) /\ "e" \notin Range(c.token)

\* creds.expired
Expired(c) == "e" \in Range(c.token)

\* creds.refresh_token, as a truth value.
HasRefreshToken(c) == "r" \in Range(c.token)

\* creds.refresh(Request()): a new access token and expiry.
Refreshed(c) == [c EXCEPT !.token = ValidRefreshableToken]

\* creds.to_json()
to_json(c) == c.token

\* A variant of the test that always authorizes again.
MutNeedsAuthorization(c) == TRUE

\* if not creds or not creds.valid:
NeedsAuthorization(c) == c = NoCreds \/ ~Valid(c)

\* A variant of the test that does not look at the refresh token.
MutNeedsRefreshOfExpired(c) == c # NoCreds /\ Expired(c)

\* A variant of the test that never refreshes.
MutNeedsRefresh(c) == FALSE

\* if creds and creds.expired and creds.refresh_token:
NeedsRefresh(c) == c # NoCreds /\ Expired(c) /\ HasRefreshToken(c)

\* An exception leaves authorize_gmail_access after the calls made so far.
AuthRaise(e, calls) ==
    /\ result' = Raised(e)
    /\ trace' = calls
    /\ pc' = "raised"

\* creds = None; if os.path.exists(token_path): creds =
\* Credentials.from_authorized_user_file(token_path, SCOPES)
AuthLoad ==
    /\ script = "auth"
    /\ pc = "auth_load"
    /\ LET checked == Append(trace, Call("os.path.exists", <<args.token_path>>))
           loaded == Append(checked, Call("from_authorized_user_file",
                                          <<args.token_path, args.scopes>>))
           r == from_authorized_user_file(args.token_path, args.scopes)
       IN IF ~Exists(args.token_path)
          THEN /\ creds' = NoCreds
               /\ result' = Returned(NoCreds)
               /\ trace' = checked
               /\ pc' = "auth_check"
          ELSE IF r.ok
          THEN /\ creds' = r.value
               /\ result' = r
               /\ trace' = loaded
               /\ pc' = "auth_check"
          ELSE /\ AuthRaise(r.error, loaded)
               /\ creds' = NoCreds
    /\ UNCHANGED <<df, filterVars, label_name, fetchVars, script, args, files,
                   filtered_df, to_csv_calls, stdout, log, exit_status, now, sys_path,
                   sys_modules, namespace>>

\* The tests of lines 32 and 33: return, refresh, or the consent flow.
AuthCheck ==
    /\ script = "auth"
    /\ pc = "auth_check"
    /\ pc' = IF ~NeedsAuthorization(creds) THEN "done"
             ELSE IF NeedsRefresh(creds) THEN "auth_refresh"
             ELSE "auth_flow"
    /\ UNCHANGED <<df, filterVars, label_name, result, fetchVars, cliVars, envVars>>

\* creds.refresh(Request())
Refresh ==
    /\ script = "auth"
    /\ pc = "auth_refresh"
    /\ trace' = Append(trace, Call("refresh", <<creds>>))
    /\ creds' = Refreshed(creds)
    /\ pc' = "auth_write"
    /\ UNCHANGED <<df, filterVars, label_name, result, fetchVars, script, args, files,
                   filtered_df, to_csv_calls, stdout, log, exit_status, now, sys_path,
                   sys_modules, namespace>>

\* creds.refresh(Request()) raises: the refresh token was revoked.
RefreshFails ==
    /\ script = "auth"
    /\ pc = "auth_refresh"
    /\ AuthRaise("RefreshError", Append(trace, Call("refresh", <<creds>>)))
    /\ UNCHANGED <<df, filterVars, label_name, fetchVars, script, args, files,
                   filtered_df, to_csv_calls, stdout, log, exit_status, envVars>>

\* flow = InstalledAppFlow.from_client_secrets_file(credentials_path,
\* SCOPES); flow.authorization_url(prompt="consent"); print(...)
StartFlow ==
    /\ script = "auth"
    /\ pc = "auth_flow"
    /\ LET opened == Append(trace, Call("from_client_secrets_file",
                                        <<args.credentials_path, args.scopes>>))
       IN IF ~Exists(args.credentials_path)
          THEN /\ AuthRaise("FileNotFoundError", opened)
               /\ UNCHANGED stdout
          ELSE /\ trace' = Append(opened, Call("authorization_url", <<"consent">>))
               /\ stdout' = Append(stdout, "Go to this URL to authorize the app:")
               /\ pc' = "auth_code"
               /\ UNCHANGED result
    /\ UNCHANGED <<df, filterVars, label_name, fetchVars, script, args, files,
                   filtered_df, to_csv_calls, log, exit_status, envVars>>

\* code = input(...); flow.fetch_token(code=code); creds = flow.credentials
EnterCode ==
    /\ script = "auth"
    /\ pc = "auth_code"
    /\ \E code \in {"granted", "denied"} :
          LET fetched == trace \o <<Call("input", <<"Enter the authorization code: ">>),
                                    Call("fetch_token", <<code>>)>>
          IN IF code = "granted"
             THEN /\ creds' = [token |-> ValidRefreshableToken, scopes |-> args.scopes]
                  /\ trace' = fetched
                  /\ pc' = "auth_write"
                  /\ UNCHANGED result
             ELSE /\ AuthRaise("InvalidGrantError", fetched)
                  /\ UNCHANGED creds
    /\ UNCHANGED <<df, filterVars, label_name, fetchVars, script, args, files,
                   filtered_df, to_csv_calls, stdout, log, exit_status, now, sys_path,
                   sys_modules, namespace>>

\* with open(token_path, "w") as token: token.write(creds.to_json())
WriteToken ==
    /\ script = "auth"
    /\ pc = "auth_write"
    /\ trace' = trace \o <<Call("open", <<args.token_path, "w">>),
                           Call("write", <<to_json(creds)>>)>>
    /\ files' = [p \in DOMAIN files \cup {args.token_path} |->
                    IF p = args.token_path THEN to_json(creds) ELSE files[p]]
    /\ pc' = "done"
    /\ UNCHANGED <<df, filterVars, label_name, result, fetchVars, script, args,
                   filtered_df, to_csv_calls, stdout, log, exit_status, envVars>>

\* open(token_path, "w") raises: the path cannot be written.
WriteTokenFails ==
    /\ script = "auth"
    /\ pc = "auth_write"
    /\ AuthRaise("PermissionError", Append(trace, Call("open", <<args.token_path, "w">>)))
    /\ UNCHANGED <<df, filterVars, label_name, fetchVars, script, args, files,
                   filtered_df, to_csv_calls, stdout, log, exit_status, envVars>>

CredentialsPath == <<"c", "r", "e", "d", "s">>
OtherTokenPath == <<"t", "2">>

\* --scopes
ScopesChoices ==
    {FetchScopes, FetchScopes \o <<<<"g", "m", "a", "i", "l", ".", "m", "o", "d", "i", "f", "y">>>>}

\* What the token file can hold.
TokenContents ==
    {GoodToken, ValidRefreshableToken, ExpiredToken, ExpiredNoRefreshToken,
     NoAccessToken, BadToken}

\* The client secrets file.
ClientSecrets == <<"{", "c", "}">>

InitAuth ==
    /\ pc = "auth_load"
    /\ script = "auth"
    /\ args \in [token_path : {TokenPath, OtherTokenPath},
                 credentials_path : {CredentialsPath}, scopes : ScopesChoices]
    /\ \E tokens \in {<<>>} \cup {[p \in {args.token_path} |-> c] : c \in TokenContents} :
          files \in {tokens,
                     [p \in DOMAIN tokens \cup {args.credentials_path} |->
                         IF p = args.credentials_path THEN ClientSecrets ELSE tokens[p]]}
    /\ creds = NoCreds
    /\ result = NoValue
    /\ trace = <<>>
    /\ stdout = <<>>
    /\ now = NoValue
    /\ sys_path = NoValue
    /\ sys_modules = NoValue
    /\ namespace = NoValue
    /\ filtered_df = NoValue
    /\ to_csv_calls = NoValue
    /\ log = NoValue
    /\ exit_status = NoValue
    /\ df = NoValue
    /\ columns = NoValue
    /\ keywords = NoValue
    /\ exclude_keywords = NoValue
    /\ label_name = NoValue
    /\ NoFetch

NextAuth ==
    \/ AuthLoad
    \/ AuthCheck
    \/ Refresh
    \/ RefreshFails
    \/ StartFlow
    \/ EnterCode
    \/ WriteToken
    \/ WriteTokenFails

SpecAuth == InitAuth /\ [][NextAuth]_vars

(***************************************************************************)
(* Claims about authorize_gmail_access.                                    *)
(***************************************************************************)

\* The calls of the interactive consent flow.
FlowCalls == {"from_client_secrets_file", "authorization_url", "input", "fetch_token"}

\* C16: when the token file exists and the credentials loaded from it are
\* valid, the function returns at once: after the load it makes no call
\* (no refresh, no consent flow, no open or write of the token file),
\* prints nothing and leaves the files and the credentials as they are;
\* and a call that has returned or raised takes no further step.
C16_ValidCredentialsLeftAlone ==
    [][/\ pc \notin {"done", "raised"}
       /\ (script = "auth" /\ pc = "auth_check" /\ creds # NoCreds /\ Valid(creds)) =>
             /\ CallNames = <<"os.path.exists", "from_authorized_user_file">>
             /\ files[args.token_path] = to_json(creds)
             /\ pc' = "done"
             /\ trace' = trace
             /\ files' = files
             /\ creds' = creds
             /\ stdout' = stdout]_vars

\* C16 witness: the function has returned with the valid credentials of
\* the token file after the check and the load alone.
C16_Witness ==
    /\ script = "auth"
    /\ pc = "done"
    /\ CallNames = <<"os.path.exists", "from_authorized_user_file">>
    /\ Valid(creds)
    /\ HasRefreshToken(creds)
    /\ files[args.token_path] = to_json(creds)

\* The credentials as they were loaded: those the refresh was called on,
\* or the current ones before a refresh.
LoadedCreds ==
    IF Len(trace) >= 3 /\ trace[3].call = "refresh" THEN trace[3].with[1] ELSE creds

\* C17: when the loaded credentials are not valid, are expired and have a
\* refresh token, the calls are the check, the load, one refresh, and then
\* the open and the write of the token path, in this order; no call of the
\* consent flow is made and nothing is printed; the token file keeps its
\* content until the write; when the function returns, the token file
\* holds the refreshed credentials.  (A refresh or an open that raises
\* ends the call there, before any write.)
C17_ExpiredCredentialsRefreshedThenWritten ==
    (/\ script = "auth"
     /\ pc # "auth_load"
     /\ LoadedCreds # NoCreds
     /\ ~Valid(LoadedCreds)
     /\ Expired(LoadedCreds)
     /\ HasRefreshToken(LoadedCreds)) =>
        /\ IsPrefix(CallNames, <<"os.path.exists", "from_authorized_user_file",
                                 "refresh", "open", "write">>)
        /\ \A i \in 1..Len(trace) : trace[i].call \notin FlowCalls
        /\ stdout = <<>>
        /\ pc \in {"auth_check", "auth_refresh", "auth_write", "done", "raised"}
        /\ pc \in {"auth_check", "auth_refresh"} => Len(trace) = 2
        /\ pc = "auth_write" => (Len(trace) = 3 /\ creds = Refreshed(LoadedCreds))
        /\ Len(trace) < 5 => files[args.token_path] = to_json(LoadedCreds)
        /\ pc = "done" =>
              /\ Len(trace) = 5
              /\ trace[4].with = <<args.token_path, "w">>
              /\ trace[5].with = <<to_json(Refreshed(LoadedCreds))>>
              /\ files[args.token_path] = to_json(Refreshed(LoadedCreds))
              /\ Valid(creds)

\* C17 witness: expired credentials were refreshed and then written: the
\* token file holds the refreshed credentials.
C17_Witness ==
    /\ script = "auth"
    /\ pc = "done"
    /\ CallNames = <<"os.path.exists", "from_authorized_user_file", "refresh",
                     "open", "write">>
    /\ Expired(LoadedCreds)
    /\ files[args.token_path] = to_json(Refreshed(LoadedCreds))
    /\ files[args.token_path] # to_json(LoadedCreds)

(***************************************************************************)
(* The import of the script filter_job_applications.py (lines 9-30) by an  *)
(* interpreter.  files gives, per directory, the top-level names it holds; *)
(* sys_path is the sequence of directories, sys_modules the set of the     *)
(* dotted names of the modules loaded, namespace the names bound in the    *)
(* script's module.  An import statement first looks its dotted name up in *)
(* sys_modules; a module not found there is imported after its parent      *)
(* package, whose __init__ runs; a package whose __init__ raises is        *)
(* removed from sys_modules, the submodules it has loaded stay.            *)
(***************************************************************************)

\* The interpreter imports the script at most MaxImports times.
MaxImports == 3

\* The names src/filters/email_filters.py defines.
EmailFiltersNames ==
    {"extract_application_status_col", "extract_email_and_name", "filter_out_sent",
     "filter_df_by_label", "transform_dataframe", "extract_job_application_rows"}

\* The name src/filters/__init__.py imports from .email_filters.
InitImportedName == "get_application_related_rows"

\* The functions filter_job_applications.py defines after its imports.
ScriptNames ==
    {"parse_arguments", "validate_input_file", "load_email_data",
     "filter_job_applications"}

\* The first directory of path that holds the top-level name, "" if none.
RECURSIVE FindDir(_, _)
FindDir(path, name) ==
    IF path = <<>> THEN ""
    ELSE IF name \in files[path[1]] THEN path[1]
    ELSE FindDir(Tail(path), name)

ImportOk(mods) == [ok |-> TRUE, modules |-> mods]
ImportFailed(e, mods) == [ok |-> FALSE, error |-> e, modules |-> mods]

\* The module email_filters of a package.
SubmoduleOf(pkg) ==
    IF pkg = "filters" THEN "filters.email_filters" ELSE "src.filters.email_filters"

\* The package of a module email_filters.
ParentOf(module) == IF module = "filters.email_filters" THEN "filters" ELSE "src.filters"

\* Running filters/__init__.py as the package pkg: from .email_filters
\* import get_application_related_rows loads the submodule and then looks
\* the name up in it.
ExecPackageInit(mods, pkg) ==
    LET loaded == mods \cup {SubmoduleOf(pkg)}
    IN IF InitImportedName \in EmailFiltersNames
       THEN ImportOk(loaded \cup {pkg})
       ELSE ImportFailed("ImportError", loaded \ {pkg})

\* The import of the package pkg: filters, found on the path, or
\* src.filters, found in the namespace package src.
ImportPackage(mods, path, pkg) ==
    IF pkg \in mods THEN ImportOk(mods)
    ELSE IF pkg = "filters"
    THEN (IF FindDir(path, "filters") = ""
          THEN ImportFailed("ModuleNotFoundError", mods)
          ELSE ExecPackageInit(mods, pkg))
    ELSE IF "src" \notin mods /\ FindDir(path, "src") = ""
    THEN ImportFailed("ModuleNotFoundError", mods)
    ELSE ExecPackageInit(mods \cup {"src"}, pkg)

\* from <module> import <name>, for a module email_filters.
ImportFrom(mods, path, module, name) ==
    LET p == IF module \in mods THEN ImportOk(mods)
             ELSE ImportPackage(mods, path, ParentOf(module))
    IN IF ~p.ok THEN p
       ELSE IF name \in EmailFiltersNames THEN ImportOk(p.modules \cup {module})
       ELSE ImportFailed("ImportError", p.modules \cup {module})

\* sys.path.insert(0, d) if d is not in sys.path.
InsertFirst(path, d) == IF d \in Range(path) THEN path ELSE <<d>> \o path

\* The number of imports of a script the interpreter has started.
Imports == Cardinality({i \in 1..Len(trace) : trace[i].call = "import"})

\* The interpreter starts to import the script, at first or again after an
\* import of it that failed (the failed module is not in sys.modules, so
\* its code runs again): lines 15-22 put src_dir and then current_dir
\* first on sys.path.
InsertPaths ==
    /\ script = "import"
    /\ pc \in {"idle", "raised"}
    /\ Imports < MaxImports
    /\ trace' = Append(trace, Call("import", <<"filter_job_applications">>))
    /\ sys_path' = InsertFirst(InsertFirst(sys_path, "src_dir"), "current_dir")
    /\ namespace' = {"current_dir", "src_dir"}
    /\ pc' = "imp_pandas"
    /\ UNCHANGED <<df, filterVars, label_name, result, fetchVars, script, args, files,
                   filtered_df, to_csv_calls, stdout, log, exit_status, now, creds,
                   sys_modules>>

\* The interpreter imports transform_email_labels.py, whose lines 14-16
\* are import pandas as pd and from src.filters.email_filters import
\* transform_dataframe: the import raises or ends.
ImportTransformScript ==
    /\ script = "import"
    /\ pc \in {"idle", "raised", "done"}
    /\ Imports < MaxImports
    /\ "transform_email_labels" \notin sys_modules
    /\ LET found == "pandas" \in sys_modules \/ FindDir(sys_path, "pandas") # ""
           r == IF found
                THEN ImportFrom(sys_modules \cup {"pandas"}, sys_path,
                                "src.filters.email_filters", "transform_dataframe")
                ELSE ImportFailed("ModuleNotFoundError", sys_modules)
       IN /\ sys_modules' = IF r.ok THEN r.modules \cup {"transform_email_labels"}
                             ELSE r.modules
          /\ trace' = trace \o <<Call("import", <<"transform_email_labels">>),
                                 Call("from", <<"src.filters.email_filters", r.ok>>)>>
    /\ UNCHANGED <<pc, df, filterVars, label_name, result, fetchVars, script, args, files,
                   filtered_df, to_csv_calls, stdout, log, exit_status, now, creds,
                   sys_path, namespace>>

\* import pandas as pd (line 24), outside the try.
ImportPandas ==
    /\ script = "import"
    /\ pc = "imp_pandas"
    /\ IF "pandas" \in sys_modules \/ FindDir(sys_path, "pandas") # ""
       THEN /\ sys_modules' = sys_modules \cup {"pandas"}
            /\ namespace' = namespace \cup {"pd"}
            /\ pc' = "imp_primary"
            /\ UNCHANGED result
       ELSE /\ result' = Raised("ModuleNotFoundError")
            /\ pc' = "raised"
            /\ UNCHANGED <<sys_modules, namespace>>
    /\ UNCHANGED <<df, filterVars, label_name, fetchVars, cliVars, now, creds, sys_path>>

\* try: from filters.email_filters import extract_job_application_rows;
\* except ImportError goes on to the fallback.
PrimaryImport ==
    /\ script = "import"
    /\ pc = "imp_primary"
    /\ LET r == ImportFrom(sys_modules, sys_path, "filters.email_filters",
                           "extract_job_application_rows")
       IN /\ sys_modules' = r.modules
          /\ trace' = Append(trace, Call("from", <<"filters.email_filters", r.ok>>))
          /\ IF r.ok
             THEN /\ namespace' = namespace \cup {"extract_job_application_rows"}
                  /\ pc' = "imp_defs"
             ELSE /\ pc' = "imp_fallback"
                  /\ UNCHANGED namespace
    /\ UNCHANGED <<df, filterVars, label_name, result, fetchVars, script, args, files,
                   filtered_df, to_csv_calls, stdout, log, exit_status, now, creds,
                   sys_path>>

\* except ImportError: from src.filters.email_filters import
\* extract_job_application_rows; an exception leaves the module.
FallbackImport ==
    /\ script = "import"
    /\ pc = "imp_fallback"
    /\ LET r == ImportFrom(sys_modules, sys_path, "src.filters.email_filters",
                           "extract_job_application_rows")
       IN /\ sys_modules' = r.modules
          /\ trace' = Append(trace, Call("from", <<"src.filters.email_filters", r.ok>>))
          /\ IF r.ok
             THEN /\ namespace' = namespace \cup {"extract_job_application_rows"}
                  /\ pc' = "imp_defs"
                  /\ UNCHANGED result
             ELSE /\ result' = Raised(r.error)
                  /\ pc' = "raised"
                  /\ UNCHANGED namespace
    /\ UNCHANGED <<df, filterVars, label_name, fetchVars, script, args, files,
                   filtered_df, to_csv_calls, stdout, log, exit_status, now, creds,
                   sys_path>>

\* The def statements of the script: the import has succeeded.
DefineFunctions ==
    /\ script = "import"
    /\ pc = "imp_defs"
    /\ namespace' = namespace \cup ScriptNames
    /\ sys_modules' = sys_modules \cup {"filter_job_applications"}
    /\ result' = Returned(None)
    /\ pc' = "done"
    /\ UNCHANGED <<df, filterVars, label_name, fetchVars, cliVars, now, creds, sys_path>>

\* sys.path before the import: site-packages last, the directory of the
\* script and its src directory present or not.
InitialPaths ==
    {<<"site">>, <<"current_dir", "site">>, <<"src_dir", "site">>,
     <<"current_dir", "src_dir", "site">>, <<"src_dir", "current_dir", "site">>}

\* The directories: the repository, its src directory, and site-packages
\* with or without pandas.
Directories(pandas_installed) ==
    [d \in {"current_dir", "src_dir", "site"} |->
        CASE d = "current_dir" -> {"src", "filter_job_applications", "transform_email_labels"}
          [] d = "src_dir" -> {"filters", "data"}
          [] d = "site" -> IF pandas_installed THEN {"pandas"} ELSE {}]

\* sys.modules before the imports: a fresh interpreter, and one that has
\* imported pandas.
InitialModules(pandas_installed) ==
    IF pandas_installed THEN {{}, {"pandas"}} ELSE {{}}

InitImport ==
    /\ pc = "idle"
    /\ script = "import"
    /\ \E pandas_installed \in BOOLEAN :
          /\ files = Directories(pandas_installed)
          /\ sys_modules \in InitialModules(pandas_installed)
    /\ sys_path \in InitialPaths
    /\ namespace = {}
    /\ trace = <<>>
    /\ result = NoValue
    /\ args = NoValue
    /\ now = NoValue
    /\ creds = NoValue
    /\ filtered_df = NoValue
    /\ to_csv_calls = NoValue
    /\ stdout = NoValue
    /\ log = NoValue
    /\ exit_status = NoValue
    /\ df = NoValue
    /\ columns = NoValue
    /\ keywords = NoValue
    /\ exclude_keywords = NoValue
    /\ label_name = NoValue
    /\ NoFetch

NextImport ==
    \/ InsertPaths
    \/ ImportTransformScript
    \/ ImportPandas
    \/ PrimaryImport
    \/ FallbackImport
    \/ DefineFunctions

SpecImport == InitImport /\ [][NextImport]_vars

(***************************************************************************)
(* Claims about the import.                                                *)
(***************************************************************************)

\* C18: with pandas installed, the import of the script does not raise:
\* no import of it ends with the exception of the fallback; an import
\* that has ended has bound extract_job_application_rows and exposes
\* parse_arguments, validate_input_file, load_email_data and
\* filter_job_applications; and the fallback is tried only after the
\* primary import has raised.
C18_ImportSucceeds ==
    (script = "import" /\ "pandas" \in files["site"]) =>
        /\ pc # "raised"
        /\ pc = "imp_fallback" => ~trace[Len(trace)].with[2]
        /\ pc = "done" =>
              /\ "extract_job_application_rows" \in namespace
              /\ ScriptNames \subseteq namespace

(***************************************************************************)
(* Claims about the columns and rows the transform needs.                  *)
(***************************************************************************)

\* C19: transform_labels fails the column check, with the ValueError
\* 'Required columns ... not found' and exit status 1, exactly when Labels
\* or From is not a column of the loaded table; and whenever the check
\* passes, the transform step ends without an exception and yields the
\* columns of the input without From, Labels, Body, ID and To and with
\* ApplicationStatus, Name and Email.
C19_OnlyLabelsAndFromRequired ==
    (script = "transform" /\ "columns" \in Range(trace)) =>
        /\ (trace = <<"validate", "load", "columns">> /\ pc = "exit")
              <=> ~({"Labels", "From"} \subseteq Range(df.columns))
        /\ (trace = <<"validate", "load", "columns">> /\ pc = "exit") =>
              /\ exit_status = 1
              /\ log[Len(log)].exception =
                    RaisedWith("ValueError", "Required columns not found in dataset")
        /\ "filter" \in Range(trace) =>
              /\ result.ok
              /\ Range(filtered_df.columns) =
                    (Range(df.columns) \ {"From", "Labels", "Body", "ID", "To"})
                       \cup {"ApplicationStatus", "Name", "Email"}

\* Whether the table has every column of a fetched table and a text in
\* every Labels and From cell.
FetchedTable(d) ==
    /\ Range(FetchedColumns) \subseteq Range(d.columns)
    /\ \A i \in 1..Len(d.rows) :
          d.rows[i].cells["Labels"] # NaN /\ d.rows[i].cells["From"] # NaN

\* C20: for every table of fetched mail and every label_name,
\* transform_dataframe returns, and every row whose Labels text contains
\* label_name and which was not sent by the owner is returned with a
\* status token as ApplicationStatus.
C20_EveryLabelledRowHasStatus ==
    (pc = "return" /\ script = NoValue /\ label_name # NoValue /\ FetchedTable(df)) =>
        /\ result.ok
        /\ \A i \in 1..Len(df.rows) :
              (/\ Occurrences(df.rows[i].cells["Labels"], label_name) # {}
               /\ ~StartsWith(df.rows[i].cells["From"], SentPrefix)) =>
                 \E k \in 1..Len(result.value.rows) :
                    /\ result.value.rows[k].index = i
                    /\ result.value.rows[k].cells["ApplicationStatus"] # <<>>

(***************************************************************************)
(* Claims about the listing loop of fetch_gmail_messages_as_df.            *)
(***************************************************************************)

\* Whether the loop has been left by its break.
LoopLeft == pc \in {"frame", "return"}

\* The list requests of the loop so far: the first has no pageToken, each
\* later one carries the nextPageToken of the response to the one before
\* it, which is a token; each carries q when q is not empty; and the loop is
\* left exactly after a response without a nextPageToken, every page of the
\* listing having been requested once.
PagedRequests ==
    /\ \A i \in 1..Len(requests) :
          /\ DOMAIN requests[i] \subseteq {"userId", "pageToken", "q"}
          /\ ("pageToken" \in DOMAIN requests[i]) <=> (i > 1)
          /\ i > 1 =>
                /\ Truthy(ListResponse(requests[i - 1]).nextPageToken)
                /\ requests[i]["pageToken"] =
                      ListResponse(requests[i - 1]).nextPageToken
          /\ Truthy(q) => ("q" \in DOMAIN requests[i] /\ requests[i]["q"] = q)
    /\ LoopLeft =>
          /\ requests # <<>>
          /\ ~Truthy(ListResponse(requests[Len(requests)]).nextPageToken)
          /\ Len(requests) = Len(service.pages)
    /\ (pc = "list" /\ requests # <<>>) =>
          Truthy(ListResponse(requests[Len(requests)]).nextPageToken)

\* Whether the function can take its next step: the list request names a
\* page of the listing (or none, the first), and cursor is a position in the
\* page at hand or just behind it.
CanStep ==
    /\ pc = "list" =>
          \/ ~Truthy(page_token)
          \/ \E n \in 1..Len(service.pages) : PageToken(n) = page_token
    /\ pc = "messages" => cursor \in 1..(Len(response.messages) + 1)

\* A bound on the steps the function still takes, given that the listing
\* ends after Len(service.pages) pages: the pages not yet requested, the
\* messages of the page at hand not yet processed, and the steps around
\* them.
StepsLeft ==
    LET pages_left == (Len(service.pages) - Len(requests)) * (MaxPerPage + 2)
    IN CASE pc \in {"return", "raised"} -> 0
         [] pc = "frame" -> 1
         [] pc = "messages" ->
               3 + (Len(response.messages) + 1 - cursor) + pages_left
         [] pc = "list" -> 2 + pages_left
         [] pc = "estimate" -> 3 + pages_left
         [] pc = "labels" -> 4 + pages_left

\* C21: the listing loop issues one list request per page, the first
\* without a pageToken, each later one with the nextPageToken of the
\* response just before it, and every one with the same q when q is not
\* empty; it stops right after the first response without a nextPageToken;
\* and, the API returning such a response after finitely many pages, the
\* function terminates: until it has ended it can always take a step, and
\* every step lowers a bound on the steps that are left.
C21_OneRequestPerPageAndTermination ==
    /\ []CanStep
    /\ [][/\ pc' \in {"list", "messages", "frame", "return"} => PagedRequests'
          /\ StepsLeft' >= 0
          /\ StepsLeft' < StepsLeft]_vars

C21_Witness ==
    /\ pc = "return"
    /\ result.ok
    /\ Truthy(q)
    /\ Len(requests) = 2
    /\ "pageToken" \in DOMAIN requests[2]
    /\ requests[2]["q"] = q

(***************************************************************************)
(* Claims about the search columns of filter_job_applications.             *)
(***************************************************************************)

\* The requested columns that are columns of the loaded table.
ExistingColumns == Range(columns) \cap Range(df.columns)

\* C22: in filter_job_applications, when some but not all requested search
\* columns are missing from the loaded table the run goes on and filters on
\* exactly the requested columns that exist, in the requested order; when
\* none exists it fails with ValueError and exit status 1 without calling
\* the filter or writing output; when all exist the requested list is used
\* unchanged.
C22_SearchColumnsCheck ==
    [][script = "filter" =>
         /\ pc = "columns" =>
               /\ ExistingColumns = Range(columns) =>
                     pc' = "process" /\ columns' = columns /\ log' = log
               /\ (ExistingColumns # {} /\ ExistingColumns # Range(columns)) =>
                     /\ pc' = "process"
                     /\ Range(columns') = ExistingColumns
                     /\ IsSubsequence(columns', columns)
                     /\ Len(columns') = Cardinality(ExistingColumns)
               /\ ExistingColumns = {} =>
                     /\ pc' = "exit"
                     /\ exit_status' = 1
                     /\ log'[Len(log')].exception.error = "ValueError"
                     /\ log'[Len(log')].prefix = "Invalid input"
                     /\ "filter" \notin Range(trace')
                     /\ to_csv_calls' = <<>>
                     /\ files' = files
         /\ pc = "process" =>
               /\ columns' = columns
               /\ filtered_df' =
                     extract_job_application_rows(df, columns, keywords,
                                                  exclude_keywords)
         /\ pc = "exit" => UNCHANGED <<files, to_csv_calls, trace>>]_vars

C22_Witness ==
    /\ script = "filter"
    /\ pc = "done"
    /\ columns = <<"Body", "Subject">>
    /\ df.columns = <<"Subject", "Body">>
    /\ Len(log) = 1
    /\ log[1].level = "warning"
    /\ "filter" \in Range(trace)

(***************************************************************************)
(* Claims about the empty exclude list and about missing values.           *)
(***************************************************************************)

\* C23: with an empty exclude_keywords list extract_job_application_rows
\* excludes nothing: the rows it returns are exactly the rows in which some
\* searched column contains a keyword.
C23_EmptyExcludeListExcludesNothing ==
    (pc = "return" /\ script = NoValue /\ label_name = NoValue
        /\ exclude_keywords = <<>>) =>
        \A i \in 1..Len(df.rows) :
            (df.rows[i] \in Range(result.rows))
            <=> RowHits(df, df.rows[i], columns, keywords)

\* C24: in extract_job_application_rows a missing value in a searched
\* column never counts as a match, neither for a keyword nor for an exclude
\* keyword: with keywords and exclude keywords given, a row is kept if and
\* only if a searched cell that holds a text contains a keyword and no
\* searched cell that holds a text contains an exclude keyword.
C24_MissingValueNeverMatches ==
    (pc = "return" /\ script = NoValue /\ label_name = NoValue
        /\ keywords # <<>> /\ exclude_keywords # <<>>) =>
        \A i \in 1..Len(df.rows) :
            (\E c \in 1..Len(columns) :
                /\ columns[c] \in Range(df.columns)
                /\ df.rows[i].cells[columns[c]] = NaN) =>
               ((df.rows[i] \in Range(result.rows))
                <=> (/\ RowHits(df, df.rows[i], columns, keywords)
                     /\ ~RowHits(df, df.rows[i], columns, exclude_keywords)))

(***************************************************************************)
(* The stages one after the other: a run of fetch_gmail_data or of one of  *)
(* the two scripts that read a CSV file; the file a stage has written is   *)
(* the input of the next stage, which validates and loads it.              *)
(***************************************************************************)

InitPipeline == InitFetchRun \/ InitCli

NextPipeline == NextFetchRun \/ NextCli

SpecPipeline == InitPipeline /\ [][NextPipeline]_vars

\* A run of fetch_gmail_data or of filter_job_applications has ended with
\* success and has written its table to args.output.
StageWritten ==
    /\ pc = "done"
    /\ script \in {"fetch", "filter"}
    /\ to_csv_calls # <<>>
    /\ args.output \in DOMAIN files

\* The table the stage has written.
WrittenTable == to_csv_calls[Len(to_csv_calls)].table

\* The next stage accepts the written file: validate_input_file and
\* load_email_data return.
NextStageLoads ==
    /\ validate_input_file(args.output).ok
    /\ load_email_data(args.output).ok

\* C25 as stated: the file written by a successful non-dry-run of
\* fetch_gmail_data or of filter_job_applications is always loaded by the
\* next stage, for every result, one with zero rows included.
C25_Original == StageWritten => NextStageLoads

\* C25: the file written by a successful non-dry-run of fetch_gmail_data or
\* of filter_job_applications is loaded by the next stage for every result
\* with at least one row, as a table with the written columns and as many
\* rows; a result with zero rows is written too and is rejected by the next
\* stage's load_email_data.
C25_NonEmptyOutputIsLoaded ==
    StageWritten =>
        /\ validate_input_file(args.output).ok
        /\ Len(WrittenTable.rows) >= 1 =>
              /\ load_email_data(args.output).ok
              /\ load_email_data(args.output).value.columns = WrittenTable.columns
              /\ Len(load_email_data(args.output).value.rows) = Len(WrittenTable.rows)
        /\ Len(WrittenTable.rows) = 0 => ~load_email_data(args.output).ok

C25_Witness ==
    /\ StageWritten
    /\ script = "fetch"
    /\ Len(WrittenTable.rows) = 2
    /\ load_email_data(args.output).ok
    /\ Len(load_email_data(args.output).value.rows) = 2
    /\ load_email_data(args.output).value.rows[1].cells["Labels"]
          = PyRepr(<<LabelJobsA, Unknown>>)

(***************************************************************************)
(* Claims about the percentage the scripts print.                          *)
(***************************************************************************)

\* C26: whenever filter_job_applications or transform_labels reaches the
\* percentage of kept rows among loaded rows, in a dry run or not, the
\* loaded table has at least one row, and the division does not fail: no
\* run ends with a ZeroDivisionError.
C26_PercentageNeverDividesByZero ==
    /\ (pc = "output" /\ script \in {"filter", "transform"}) =>
          /\ Len(df.rows) >= 1
          /\ Percentage(Len(filtered_df.rows), Len(df.rows)).ok
    /\ \A i \in 1..Len(log) :
          log[i].level = "error" => log[i].exception.error # "ZeroDivisionError"

C26_Witness ==
    /\ script = "transform"
    /\ pc = "done"
    /\ Saves(args)
    /\ "Filter rate" \in Range(stdout)
    /\ Len(df.rows) = 1
    /\ Len(filtered_df.rows) = 0

(***************************************************************************)
(* Claims about the branches of authorize_gmail_access.                    *)
(***************************************************************************)

\* The credentials call for the consent flow: there are none, or they are
\* not valid and are not both expired and holding a refresh token.
FlowDue(c) ==
    \/ c = NoCreds
    \/ (~Valid(c) /\ ~(Expired(c) /\ HasRefreshToken(c)))

\* The credentials are absent or not valid.
WriteDue(c) == c = NoCreds \/ ~Valid(c)

\* Whether a call of the consent flow, or a call of the given name, has
\* been made.
FlowRun == \E i \in 1..Len(trace) : trace[i].call \in FlowCalls
Called(name) == \E i \in 1..Len(trace) : trace[i].call = name

\* C27: in authorize_gmail_access the consent flow is run exactly when no
\* token file exists, or the loaded credentials are not valid and are not
\* both expired and holding a refresh token; refresh and the consent flow
\* are never both performed in one run; a call that returns has written the
\* token file exactly when the credentials were absent or not valid at the
\* start; and after every return a token file exists at the token path.  (A
\* call that raises ends there: it takes the same branch and writes
\* nothing.)
C27_FlowRefreshAndWrite ==
    /\ [](script = "auth" =>
            /\ ~(FlowRun /\ Called("refresh"))
            /\ pc \in {"auth_load", "auth_check"} =>
                  ~(FlowRun \/ Called("refresh") \/ Called("write"))
            /\ pc = "auth_check" => (creds = NoCreds <=> ~Exists(args.token_path))
            /\ pc = "raised" => ~Called("write")
            /\ pc = "done" =>
                  /\ result.ok
                  /\ Exists(args.token_path)
                  /\ FlowRun <=> FlowDue(result.value)
                  /\ Called("write") <=> WriteDue(result.value)
                  /\ Called("refresh") <=>
                        (WriteDue(result.value) /\ ~FlowDue(result.value)))
    /\ [][script = "auth" =>
            /\ pc = "auth_check" =>
                  /\ (pc' = "auth_flow") <=> FlowDue(creds)
                  /\ (pc' = "auth_refresh") <=> (WriteDue(creds) /\ ~FlowDue(creds))
                  /\ (pc' = "done") <=> ~WriteDue(creds)
            /\ pc = "auth_flow" => FlowRun'
            /\ (FlowRun' /\ ~FlowRun) => pc = "auth_flow"
            /\ (Called("refresh")' /\ ~Called("refresh")) => pc = "auth_refresh"
            /\ (Called("write")' /\ ~Called("write")) =>
                  (pc = "auth_write" /\ pc' = "done")]_vars

C27_Witness ==
    /\ script = "auth"
    /\ pc = "done"
    /\ result.ok
    /\ result.value # NoCreds
    /\ result.value.token = ExpiredNoRefreshToken
    /\ FlowRun
    /\ Called("write")
    /\ ~Called("refresh")
    /\ files[args.token_path] = ValidRefreshableToken

(***************************************************************************)
(* The two functions of email_filters.py called on a table of the caller:  *)
(* a call of extract_job_application_rows (no label_name) or one of        *)
(* transform_dataframe.                                                    *)
(***************************************************************************)

InitFilters == InitExtract \/ InitTransform

NextFilters ==
    \/ (label_name = NoValue /\ Extract)
    \/ (label_name # NoValue /\ Transform)

SpecFilters == InitFilters /\ [][NextFilters]_vars

====
